---- MODULE Spec2Model ----
(***************************************************************************)
(* State-machine model of BulkEmailSender                                  *)
(* (src/bulk_email_sender_manual_login.py): the GUI thread, the dispatcher *)
(* thread with its worker pool, the auto-reply worker and the threads of   *)
(* the tracking HTTP server, all sharing one browser driver, one           *)
(* driver_lock and the tracking store.                                     *)
(*                                                                         *)
(* Threads are interleaved at the points where they touch shared state.    *)
(* A tracking id (uuid4) is modelled as the next unused natural number.    *)
(* Wall-clock time is the variable now, advanced by Tick.                  *)
(***************************************************************************)
EXTENDS Integers, Sequences, FiniteSets, TLC

\* ------------------------------------------------------------------ bounds
MaxList == 2        \* longest recipient list
MaxRuns == 2        \* number of times START is pressed
MaxTasks == 2       \* number of tasks minted over all runs
MaxHits == 2        \* number of requests to /track
MaxTicks == 2       \* number of clock advances
MaxHttp == 2        \* HTTP server threads handling requests at once

\* ------------------------------------------------------- program constants
Cooldown == 3600    \* action_worker: now - last < 3600

Emails == {"a@x", "b@x"}
Providers == {"Gmail", "Outlook.com", "Comcast", "Other"}
Widths == {1, 2}

MaxBatch == 3       \* largest batch of the all-confirmed scenario
MaxIds == MaxBatch
Ids == 1..MaxIds
HttpThreads == 1..MaxHttp
EmptyId == 0                 \* /track with no id argument
GhostId == MaxIds + 1        \* an id that was never minted
TickStep == Cooldown \div 2
Epoch == 2 * Cooldown        \* the clock at start-up, later than 1970 + Cooldown

NoHolder == <<"free", 0>>
GuiThread == <<"gui", 0>>
ReplyThread == <<"reply", 0>>
TaskThread(t) == <<"task", t>>

NoRec == [email |-> "", status |-> "", sent_time |-> 0, opened_time |-> 0, replied |-> FALSE]
NoAction == <<"", 0>>

\* no screenshot attempted yet: <<pre-send, failure>>
NoShots == <<"none", "none">>
\* no row for the email in tree_items
NoRow == <<>>
\* no html_message yet for the id
NoHtml == <<"(no message)">>
\* PurchaseOrderBlurrer.__init__: blur_strength = 15, kernel (15, 15)
BlurDefault == 15

MaxFiles == 3
FileIds == 1..MaxFiles
\* what hosted_files.get(fid) gives for an id that was never hosted
NoMeta == <<>>
\* the ids a request can carry: the hosted ones and one no hosting ever minted
RequestIds == FileIds \cup {MaxFiles + 1}

VARIABLES
    provider,           \* provider_var
    helperAvailable,    \* _OUTLOOK_HELPER_AVAILABLE
    driver,             \* self.driver is not None
    driver_lock,        \* holder of self.driver_lock, or NoHolder
    email_list,         \* self.email_list
    max_workers,        \* self.max_workers
    poolWidth,          \* max_workers of the ThreadPoolExecutor of each run
    tracking_map,       \* keys of self.tracking_map
    rec,                \* the record object minted for each id
    taskEmail,          \* the email of the task tuple of each id
    observed,           \* what the confirmation of each task saw in the browser
    runOf,              \* the run (call of start_sending) that minted each id
    pc,                 \* position of each task in _send_single_email
    outcome,            \* how _send_single_email ended for each task
    delivered,          \* the message of the task has left (send action / native send)
    processed,          \* the dispatcher has handled the task's completion
    crashed,            \* the dispatcher thread of a run died with an exception
    runs,               \* number of calls of start_sending so far
    minted,             \* number of tracking ids minted so far
    sent_count,
    failed_count,
    action_queue,
    gui_update_queue,
    recent_replies,     \* email -> time of the last auto-reply (0: none)
    now,                \* time.time()
    guiPc,              \* position of the GUI thread
    arPc,               \* position of action_worker
    arAct,              \* the action action_worker is handling
    arNow,              \* the time action_worker sampled for it
    hPc,                \* position of each HTTP thread in track()
    hId,                \* the id argument of the request it handles
    hTs,                \* the timestamp it took
    hSeq,               \* a hit for the same id had completed when it started
    hits,               \* number of requests so far
    doneHits,           \* completed requests per known id
    enq,                \* auto_reply actions ever enqueued per id
    lastResp,           \* the response of the request answered last
    paused,             \* self.paused
    running,            \* self.running
    arLog,              \* auto-replies sent: <<email, time of sending>>
    raw_message,        \* the message box: a text as a sequence of tokens
    sender_var,         \* the sender field, stripped
    review_var,         \* the review URL field, stripped
    html,               \* the text the fragment functions have produced so far
    txLog,              \* the fragment functions applied to raw_message, in order
    hosted_files,       \* file id -> stored path ("" for an id not hosted)
    disk,               \* the paths that exist on disk
    fPc,                \* position of the HTTP thread in serve_file
    fId,                \* the file id it was asked for
    fileResp,           \* the response of the file request answered last
    sePc,               \* position of one execution of send_email
    seLog,              \* what that execution has done, in order
    seRet,              \* how it ended: "none", "True" or "raise"
    shots,              \* per task: how its pre-send and its failure screenshot went
    tree,               \* the table row tree_items points to for each email
    taskHtml,           \* html_message of the task tuple of each id
    bodyHtml,           \* the body given to the native client or to the editor
    blur_strength,      \* PurchaseOrderBlurrer.blur_strength
    gaussian_kernel_size, \* the k of its gaussian_kernel_size (k, k)
    blurArg             \* the argument of the last set_blur_strength

vars == <<provider, helperAvailable, driver, driver_lock, email_list, max_workers, poolWidth,
          tracking_map, rec, taskEmail, observed, runOf, pc, outcome, delivered, processed,
          crashed, runs, minted, sent_count, failed_count, action_queue,
          gui_update_queue, recent_replies, now, guiPc, arPc, arAct, arNow,
          hPc, hId, hTs, hSeq, hits, doneHits, enq, lastResp, paused, running, arLog,
          raw_message, sender_var, review_var, html, txLog,
          hosted_files, disk, fPc, fId, fileResp, sePc, seLog, seRet,
          shots, tree, taskHtml, bodyHtml, blur_strength, gaussian_kernel_size, blurArg>>

dispVars == <<max_workers, poolWidth, taskEmail, observed, runOf, pc, outcome, delivered, processed,
              crashed, runs, minted, sent_count, failed_count>>
httpVars == <<hPc, hId, hTs, hSeq, hits, doneHits, enq, lastResp>>
\* the text, file, send_email, screenshot, table, body and blur variables
auxVars == <<raw_message, sender_var, review_var, html, txLog,
             hosted_files, disk, fPc, fId, fileResp, sePc, seLog, seRet,
             shots, tree, taskHtml, bodyHtml, blur_strength, gaussian_kernel_size, blurArg>>
\* everything the dispatch, tracking and reply threads work on
programVars == <<paused, running, driver, driver_lock, email_list, guiPc, dispVars, tracking_map, rec, action_queue,
                 gui_update_queue, recent_replies, arPc, arAct, arNow, arLog, httpVars, shots, tree, taskHtml, bodyHtml>>

Init ==
    /\ provider = "Gmail"
    /\ helperAvailable \in BOOLEAN
    /\ driver = FALSE
    /\ driver_lock = NoHolder
    /\ email_list = <<>>
    /\ max_workers = 1
    /\ poolWidth = [r \in 1..MaxRuns |-> 0]
    /\ tracking_map = {}
    /\ rec = [t \in Ids |-> NoRec]
    /\ taskEmail = [t \in Ids |-> ""]
    /\ observed = [t \in Ids |-> "none"]
    /\ runOf = [t \in Ids |-> 0]
    /\ pc = [t \in Ids |-> "none"]
    /\ outcome = [t \in Ids |-> "none"]
    /\ delivered = [t \in Ids |-> FALSE]
    /\ processed = [t \in Ids |-> FALSE]
    /\ crashed = [r \in 1..MaxRuns |-> FALSE]
    /\ runs = 0
    /\ minted = 0
    /\ sent_count = 0
    /\ failed_count = 0
    /\ action_queue = <<>>
    /\ gui_update_queue = <<>>
    /\ recent_replies = [e \in Emails |-> 0]
    /\ now = Epoch
    /\ guiPc = "idle"
    /\ arPc = "idle"
    /\ arAct = NoAction
    /\ arNow = 0
    /\ hPc = [h \in HttpThreads |-> "idle"]
    /\ hId = [h \in HttpThreads |-> EmptyId]
    /\ hTs = [h \in HttpThreads |-> 0]
    /\ hSeq = [h \in HttpThreads |-> FALSE]
    /\ hits = 0
    /\ doneHits = [t \in Ids |-> 0]
    /\ enq = [t \in Ids |-> 0]
    /\ lastResp = "none"
    /\ paused = FALSE
    /\ running = FALSE
    /\ arLog = <<>>
    /\ raw_message = <<>>
    /\ sender_var = ""
    /\ review_var = ""
    /\ html = <<>>
    /\ txLog = <<>>
    /\ hosted_files = [f \in FileIds |-> NoMeta]
    /\ disk = {}
    /\ fPc = "idle"
    /\ fId = 0
    /\ fileResp = "none"
    /\ sePc = "idle"
    /\ seLog = <<>>
    /\ seRet = "none"
    /\ shots = [t \in Ids |-> NoShots]
    /\ tree = [e \in Emails |-> NoRow]
    /\ taskHtml = [t \in Ids |-> NoHtml]
    /\ bodyHtml = [t \in Ids |-> NoHtml]
    /\ blur_strength = BlurDefault
    /\ gaussian_kernel_size = <<BlurDefault, BlurDefault>>
    /\ blurArg = BlurDefault

\* ----------------------------------------------------------------- helpers
Range(s) == {s[i] : i \in 1..Len(s)}

RECURSIVE RemoveFirst(_, _)
\* list.remove(x): drop the first occurrence of x
RemoveFirst(s, x) ==
    IF s = <<>> THEN <<>>
    ELSE IF Head(s) = x THEN Tail(s)
    ELSE <<Head(s)>> \o RemoveFirst(Tail(s), x)

\* the lists a CSV file can hold, up to the names of the addresses
RecipientLists == {l \in UNION {[1..n -> Emails] : n \in 1..MaxList} : l[1] = "a@x"}

\* ... and the longer ones of the all-confirmed scenario
BatchLists == {l \in UNION {[1..n -> Emails] : n \in 1..MaxBatch} : l[1] = "a@x"}

\* "outlook" in provider.lower(), "gmail" in ..., "comcast" in ...
IsOutlook(p) == p = "Outlook.com"
IsGmail(p) == p = "Gmail"
IsComcast(p) == p = "Comcast"

\* a lock that lets a second thread in
CanAcquire_Barging(holder) == TRUE

\* with self.driver_lock: entry blocks until the lock is free
CanAcquire(holder) == holder = NoHolder

\* an exit path that keeps the lock (acquire() without a finally: release())
ReleasedLock_Leak(holder) == holder

\* with self.driver_lock: the lock is released when the block is left,
\* by return or by exception
ReleasedLock(holder) == NoHolder

\* ids numbered per batch, so that a later batch reuses them
NewTrackId_Reused(k) == k

\* str(uuid.uuid4()): the k-th id minted by one call of start_sending
NewTrackId(k) == minted + k

\* ------------------------------------------------------------ the GUI thread
\* provider_box: the operator picks a provider (before the first run)
SelectProvider(p) ==
    /\ guiPc = "idle"
    /\ runs = 0
    /\ p # provider
    /\ provider' = p
    /\ UNCHANGED <<helperAvailable, now, paused, running, auxVars, driver, driver_lock, email_list, guiPc, dispVars, tracking_map, rec,
                   action_queue, gui_update_queue, recent_replies, arPc, arAct, arNow, arLog, httpVars>>

\* load_emails: the list is replaced, the table is cleared and gets one
\* Pending row per entry; tree_items names the last row of an address
load_emails(l) ==
    /\ guiPc = "idle"
    /\ runs = 0
    /\ l # email_list
    /\ email_list' = l
    /\ tree' = [e \in Emails |-> IF e \in Range(l) THEN <<"Pending", 0, 0, "No">> ELSE NoRow]
    /\ UNCHANGED <<provider, helperAvailable, now, paused, running, raw_message, sender_var, review_var, html, txLog, hosted_files, disk, fPc, fId, fileResp, sePc, seLog, seRet, shots, taskHtml, bodyHtml, blur_strength, gaussian_kernel_size, blurArg,
                   driver, driver_lock, guiPc, dispVars, tracking_map, rec,
                   action_queue, gui_update_queue, recent_replies, arPc, arAct, arNow, arLog, httpVars>>

remove_selected(e) ==
    /\ guiPc = "idle"
    /\ e \in Range(email_list)
    /\ email_list' = RemoveFirst(email_list, e)
    /\ tracking_map' = {t \in tracking_map : rec[t].email # e}
    /\ tree' = [tree EXCEPT ![e] = NoRow]
    /\ UNCHANGED <<provider, helperAvailable, now, paused, running, raw_message, sender_var, review_var, html, txLog, hosted_files, disk, fPc, fId, fileResp, sePc, seLog, seRet, shots, taskHtml, bodyHtml, blur_strength, gaussian_kernel_size, blurArg,
                   driver, driver_lock, guiPc, dispVars, rec,
                   action_queue, gui_update_queue, recent_replies, arPc, arAct, arNow, arLog, httpVars>>

\* one item of gui_update_queue applied to the table: "update_status" sets the
\* four values of the row of the email, "update_replied" its last value; an
\* email without a row in tree_items is skipped
ApplyUpdate(tr, item) ==
    LET e == item[2]
    IN  IF tr[e] = NoRow THEN tr
        ELSE IF item[1] = "update_status"
               THEN [tr EXCEPT ![e] = <<item[3], item[4], item[5], item[6]>>]
        ELSE [tr EXCEPT ![e][4] = item[3]]

\* the items of a queue applied in order
RECURSIVE ApplyAll(_, _)
ApplyAll(tr, q) ==
    IF q = <<>> THEN tr ELSE ApplyAll(ApplyUpdate(tr, Head(q)), Tail(q))

\* the timer callback: drain gui_update_queue into the table
process_gui_updates ==
    /\ guiPc = "idle"
    /\ gui_update_queue # <<>>
    /\ gui_update_queue' = <<>>
    /\ tree' = ApplyAll(tree, gui_update_queue)
    /\ UNCHANGED <<provider, helperAvailable, now, paused, running, raw_message, sender_var, review_var, html, txLog, hosted_files, disk, fPc, fId, fileResp, sePc, seLog, seRet, shots, taskHtml, bodyHtml, blur_strength, gaussian_kernel_size, blurArg,
                   driver, driver_lock, email_list, guiPc, dispVars, tracking_map, rec,
                   action_queue, recent_replies, arPc, arAct, arNow, arLog, httpVars>>

\* open_chrome_and_login up to the first "with self.driver_lock": attach to
\* Chrome or start a fallback Chrome (ok), or fail both and return
open_chrome_and_login(ok) ==
    /\ guiPc = "idle"
    /\ driver' = (IF ok THEN TRUE ELSE driver)
    /\ guiPc' = (IF ok THEN "open_cdp_wait" ELSE "idle")
    /\ UNCHANGED <<provider, helperAvailable, now, paused, running, auxVars, driver_lock, email_list, dispVars, tracking_map, rec,
                   action_queue, gui_update_queue, recent_replies, arPc, arAct, arNow, arLog, httpVars>>

\* ------------------------------------------------- the fragment functions
\* A text is a sequence of tokens: tags, words, the pieces of the placeholder
\* tokens, and the white space " ".
Ws == " "
SenderValue == "Alice"
ReviewUrl == "https://x/y"
LongerUrl == "https://x/y/z"     \* a text in which ReviewUrl occurs

\* the recognized placeholder tokens
SenderToken == <<"%", "SENDER", "%">>
ReviewToken == <<"REVIEW_DOCUMENT_URL">>
AudioToken == <<"REPLACE_WITH_AUDIO_URL">>
PercentReviewToken == <<"%", "REVIEW_DOCUMENT_URL", "%">>

\* the things a message body is made of in the templates
Pieces == {SenderToken, ReviewToken, AudioToken, PercentReviewToken,
           <<"<p>", "hi", "</p>">>, <<ReviewUrl>>, <<LongerUrl>>}

\* the documents of the message box: a bare fragment, a full document with a
\* body element, and documents with wrappers but no body element
Docs ==
    UNION {{c,
            <<"<!doctype>", "<html>", "<head>", "<meta>", "<title>", "T", "</title>", "</head>",
              "<body>", Ws>> \o c \o <<Ws, "</body>", "</html>">>,
            <<"<html>", "<body>">> \o c \o <<"</body>", "</html>">>,
            <<"<html>", "<head>", "<title>", "T", "</title>", "</head>">> \o c \o <<"</html>">>,
            <<"<!doctype>", "<html>", "<meta>">> \o c \o <<"</html>", Ws>>,
            <<"<html>">> \o c \o <<"</html>">>} : c \in {<<>>} \cup Pieces \cup {a \o b : a \in Pieces, b \in Pieces}}

\* a in s: the literal a occurs in the text s ("" occurs in every text)
Occurs(a, s) ==
    \/ a = ""
    \/ \E i \in 1..Len(s) : s[i] = a \/ (a = ReviewUrl /\ s[i] = LongerUrl)

\* the index of the first x in s at or after position i, 0 if there is none
RECURSIVE IndexFrom(_, _, _)
IndexFrom(s, x, i) ==
    IF i > Len(s) THEN 0 ELSE IF s[i] = x THEN i ELSE IndexFrom(s, x, i + 1)

\* str.strip()
RECURSIVE Strip(_)
Strip(s) ==
    IF s = <<>> THEN s
    ELSE IF Head(s) = Ws THEN Strip(Tail(s))
    ELSE IF s[Len(s)] = Ws THEN Strip(SubSeq(s, 1, Len(s) - 1))
    ELSE s

\* str.replace(pat, val): every non-overlapping occurrence, left to right
RECURSIVE Replace(_, _, _)
Replace(s, pat, val) ==
    IF Len(s) < Len(pat) THEN s
    ELSE IF SubSeq(s, 1, Len(pat)) = pat
           THEN val \o Replace(SubSeq(s, Len(pat) + 1, Len(s)), pat, val)
    ELSE <<Head(s)>> \o Replace(Tail(s), pat, val)

\* re.sub of a tag pattern by "": drop every token of the set
DropTags(s, tags) == SelectSeq(s, LAMBDA x : x \notin tags)

\* re.sub(r"<title[^>]*>.*?</title\s*>", ""): drop each title element with
\* its contents; an unclosed <title> stays
RECURSIVE DropTitle(_)
DropTitle(s) ==
    LET i == IndexFrom(s, "<title>", 1)
        j == IF i = 0 THEN 0 ELSE IndexFrom(s, "</title>", i + 1)
    IN  IF j = 0 THEN s
        ELSE SubSeq(s, 1, i - 1) \o DropTitle(SubSeq(s, j + 1, Len(s)))

\* the wrappers _extract_body_fragment removes when there is no body element
WrapperTags == {"<!doctype>", "<html>", "</html>", "<head>", "</head>"}
MetaTags == {"<meta>"}

\* "<meta" with attributes and no ">" of its own, as at the end of a text that
\* was cut short
OpenMeta == "<meta name=x"

\* pixel_tag of start_sending (621-624) for the task with track id t
PixelTag(t) == <<"<img src=/track?id=" \o ToString(t) \o ">">>

\* the tokens in which a ">" occurs
GtTokens ==
    WrapperTags \cup MetaTags \cup
    {"<title>", "</title>", "<body>", "</body>", "<p>", "</p>", ">", "</a>"} \cup
    {PixelTag(t)[1] : t \in Ids}

\* the index of the first token with a ">" in s at or after position i, 0 if
\* there is none
RECURSIVE GtFrom(_, _)
GtFrom(s, i) ==
    IF i > Len(s) THEN 0 ELSE IF s[i] \in GtTokens THEN i ELSE GtFrom(s, i + 1)

\* re.sub(r"<meta[^>]*>", ""): drop each meta tag; a "<meta" without its own
\* ">" matches on through the next ">" of the text, and stays if there is none
RECURSIVE DropMeta(_)
DropMeta(s) ==
    IF s = <<>> THEN s
    ELSE IF Head(s) \in MetaTags THEN DropMeta(Tail(s))
    ELSE IF Head(s) = OpenMeta /\ GtFrom(s, 2) # 0
           THEN DropMeta(SubSeq(s, GtFrom(s, 2) + 1, Len(s)))
    ELSE <<Head(s)>> \o DropMeta(Tail(s))


\* _extract_body_fragment
ExtractBodyFragment(doc) ==
    IF doc = <<>> THEN <<>>
    ELSE LET s == Strip(doc)
             i == IndexFrom(s, "<body>", 1)
             j == IF i = 0 THEN 0 ELSE IndexFrom(s, "</body>", i + 1)
         IN  IF j # 0 THEN Strip(SubSeq(s, i + 1, j - 1))
             ELSE Strip(DropTitle(DropMeta(DropTags(s, WrapperTags))))

\* _inject_placeholders: the replacements in the order of the code
InjectPlaceholders(frag, sender, review) ==
    LET r1 == IF sender # "" THEN Replace(frag, SenderToken, <<sender>>) ELSE frag
    IN  IF review # ""
          THEN Replace(Replace(Replace(r1, ReviewToken, <<review>>),
                               AudioToken, <<review>>),
                       PercentReviewToken, <<review>>)
          ELSE r1

\* the block _ensure_review_fallback appends
FallbackBlock(review) ==
    <<"<p>", "If the button above does not work, open this link to review the document: ",
      "<a href=", review, ">", review, "</a>", "</p>">>


EnsureReviewFallback_Always(frag, review) == frag \o FallbackBlock(review)

\* _ensure_review_fallback
EnsureReviewFallback(frag, review) ==
    IF review = "" THEN frag
    ELSE IF Occurs(review, frag) THEN frag
    ELSE frag \o FallbackBlock(review)

\* extraction, injection and fallback in a row, as start_sending (614-619) and
\* send_email (2121-2123, 2222-2224, 2283-2285, 2329-2331) apply them
Fragment(doc, sender, review) ==
    EnsureReviewFallback(InjectPlaceholders(ExtractBodyFragment(doc), sender, review), review)



\* the for-loop of start_sending: one record and one task per list entry
MintTasks(r, w) ==
    LET n == Len(email_list)
        new == {NewTrackId(k) : k \in 1..n}
        pos(t) == CHOOSE k \in 1..n : NewTrackId(k) = t
    IN  /\ rec' = [t \in Ids |-> IF t \in new
                     THEN [email |-> email_list[pos(t)], status |-> "Queued",
                           sent_time |-> now, opened_time |-> 0, replied |-> FALSE]
                     ELSE rec[t]]
        /\ tracking_map' = tracking_map \cup new
        /\ taskEmail' = [t \in Ids |-> IF t \in new THEN email_list[pos(t)] ELSE taskEmail[t]]
        /\ runOf' = [t \in Ids |-> IF t \in new THEN r ELSE runOf[t]]
        /\ observed' = [t \in Ids |-> IF t \in new THEN "none" ELSE observed[t]]
        /\ pc' = [t \in Ids |-> IF t \in new THEN "pending" ELSE pc[t]]
        /\ outcome' = [t \in Ids |-> IF t \in new THEN "none" ELSE outcome[t]]
        /\ delivered' = [t \in Ids |-> IF t \in new THEN FALSE ELSE delivered[t]]
        /\ processed' = [t \in Ids |-> IF t \in new THEN FALSE ELSE processed[t]]
        /\ minted' = minted + n
        /\ poolWidth' = [poolWidth EXCEPT ![r] = w]
        /\ taskHtml' = [t \in Ids |-> IF t \in new
                                        THEN Fragment(raw_message, sender_var, review_var)
                                                 \o PixelTag(t)
                                        ELSE taskHtml[t]]
        /\ gui_update_queue' = gui_update_queue \o
               [k \in 1..n |-> <<"update_status", email_list[k], "Queued", now, 0, "No">>]

\* start_sending: reset the counters, set the pool width; for Outlook warm the
\* compose window under the lock first, otherwise mint the tasks at once
start_sending(w) ==
    /\ guiPc = "idle"
    /\ email_list # <<>>
    /\ runs < MaxRuns
    /\ minted + Len(email_list) <= MaxIds
    /\ runs' = runs + 1
    /\ sent_count' = 0
    /\ failed_count' = 0
    /\ running' = TRUE
    /\ paused' = FALSE
    /\ max_workers' = w
    /\ IF IsOutlook(provider)
         THEN /\ guiPc' = "warm_wait"
              /\ UNCHANGED <<tracking_map, rec, poolWidth, taskEmail, observed, runOf, pc, outcome,
                             delivered, processed, minted, gui_update_queue, taskHtml>>
         ELSE /\ MintTasks(runs + 1, w)
              /\ UNCHANGED guiPc
    /\ UNCHANGED <<provider, helperAvailable, now, raw_message, sender_var, review_var, html, txLog, hosted_files, disk, fPc, fId, fileResp, sePc, seLog, seRet, shots, tree, bodyHtml, blur_strength, gaussian_kernel_size, blurArg,
                   driver, driver_lock, email_list, crashed,
                   action_queue, recent_replies, arPc, arAct, arNow, arLog, httpVars>>

\* the GUI thread enters one of its "with self.driver_lock" blocks
GuiAcquire ==
    /\ guiPc \in {"open_cdp_wait", "open_nav_wait", "warm_wait"}
    /\ CanAcquire(driver_lock)
    /\ driver_lock' = GuiThread
    /\ guiPc' = CASE guiPc = "open_cdp_wait" -> "open_cdp"
                  [] guiPc = "open_nav_wait" -> "open_nav"
                  [] OTHER -> "warm"
    /\ UNCHANGED <<provider, helperAvailable, now, paused, running, auxVars, driver, email_list, dispVars, tracking_map, rec,
                   action_queue, gui_update_queue, recent_replies, arPc, arAct, arNow, arLog, httpVars>>

\* ... and leaves it: after execute_cdp_cmd, after driver.get(url), or after the
\* warm-up, which is followed by the minting loop
GuiRelease ==
    /\ guiPc \in {"open_cdp", "open_nav", "warm"}
    /\ driver_lock' = ReleasedLock(driver_lock)
    /\ IF guiPc = "warm"
         THEN /\ MintTasks(runs, max_workers)
              /\ guiPc' = "idle"
              /\ UNCHANGED <<max_workers, crashed, runs, sent_count, failed_count>>
         ELSE /\ guiPc' = (IF guiPc = "open_cdp" THEN "open_nav_wait" ELSE "idle")
              /\ UNCHANGED <<dispVars, tracking_map, rec, gui_update_queue, taskHtml>>
    /\ UNCHANGED <<provider, helperAvailable, now, paused, running, raw_message, sender_var, review_var, html, txLog, hosted_files, disk, fPc, fId, fileResp, sePc, seLog, seRet, shots, tree, bodyHtml,
                   <<blur_strength, gaussian_kernel_size, blurArg>>, driver, email_list, action_queue, recent_replies, arPc, arAct, arNow, arLog, httpVars>>


\* pause: ignored unless a run was started; otherwise the flag is toggled
pause ==
    /\ guiPc = "idle"
    /\ running
    /\ paused' = ~paused
    /\ UNCHANGED <<provider, helperAvailable, now, auxVars, running, driver, driver_lock, email_list, guiPc, dispVars, tracking_map, rec,
                   action_queue, gui_update_queue, recent_replies, arPc, arAct, arNow, arLog, httpVars>>

\* stop: clear the running flag; self.executor is always None and nothing is
\* ever put on send_queue, so the shutdown and the drain do nothing
stop ==
    /\ guiPc = "idle"
    /\ running' = FALSE
    /\ UNCHANGED <<provider, helperAvailable, now, auxVars, paused, driver, driver_lock, email_list, guiPc, dispVars, tracking_map, rec,
                   action_queue, gui_update_queue, recent_replies, arPc, arAct, arNow, arLog, httpVars>>


\* ------------------------------------------------- send_email (browser path)
ComposeResults == {"composed", "recipient_failed", "body_failed"}

\* send_email up to the send action: recipient and body injection raise on
\* failure for Gmail, Outlook.com and Comcast; the generic branch swallows
\* both failures and goes on to the send keys
ComposeRaises(p, res) ==
    /\ IsGmail(p) \/ IsOutlook(p) \/ IsComcast(p)
    /\ res # "composed"

\* send_email after the send action: _wait_for_send_toast, then _confirm_sent.
\* The result is how the send was confirmed, or "raise".
\* _confirm_sent reads the undefined name provider_lc in its Comcast test, so
\* for Comcast it raises NameError; the generic branch returns True unchecked.
SendEmailConfirm(p, toast, found) ==
    CASE ~(IsGmail(p) \/ IsOutlook(p) \/ IsComcast(p)) -> "unchecked"
      [] IsGmail(p) /\ toast -> "toast"
      [] IsGmail(p) /\ ~toast -> IF found THEN "sentfolder" ELSE "raise"
      [] IsOutlook(p) /\ toast -> "toast"
      [] IsOutlook(p) /\ ~toast -> IF found THEN "sentfolder" ELSE "raise"
      [] IsComcast(p) /\ toast -> "toast"
      [] OTHER -> "raise"

\* what the browser shows after the send action: the toast (the sent folder is
\* then not looked at), else the message listed in the sent folder, else neither
Seen(toast, found) == IF toast THEN "toast" ELSE IF found THEN "listed" ELSE "nothing"

OkOutcomes == {"native_ok", "toast", "sentfolder", "unchecked"}
FailOutcomes == {"no_driver", "compose_failed", "unconfirmed"}

\* the value of future.result()
Success(t) == outcome[t] \in OkOutcomes

\* ------------------------------------------------ the worker pool of a run
TasksOf(r) == {t \in Ids : runOf[t] = r}
\* a pool that counts no task as running
InFlight_Uncounted(r) == {}
\* the tasks of run r that a thread of its ThreadPoolExecutor is running
InFlight(r) == {t \in TasksOf(r) : pc[t] \notin {"none", "pending", "done"}}

\* a pool thread takes the next submitted task: _send_single_email begins
StartTask(t) ==
    /\ pc[t] = "pending"
    /\ \A u \in TasksOf(runOf[t]) : pc[u] = "pending" => t <= u
    /\ Cardinality(InFlight(runOf[t])) < poolWidth[runOf[t]]
    /\ pc' = [pc EXCEPT ![t] = IF IsOutlook(provider) /\ helperAvailable
                                 THEN "native" ELSE "waitlock"]
    /\ UNCHANGED <<provider, helperAvailable, now, paused, running, auxVars, driver, driver_lock, email_list, guiPc, max_workers, poolWidth, taskEmail, observed,
                   runOf, outcome, delivered, processed, crashed, runs, minted,
                   sent_count, failed_count, tracking_map, rec, action_queue,
                   gui_update_queue, recent_replies, arPc, arAct, arNow, arLog, httpVars>>

\* a native failure that ends the task
AfterNative_NoFallback(ok) == "done"

\* after send_via_outlook_desktop: return True, or on an exception fall
\* through to the Selenium block
AfterNative(ok) == IF ok THEN "done" ELSE "waitlock"

\* an except clause that returns False at once
AfterRaise_NoScreenshot == "done"

\* an exception in the try block of _send_single_email is caught by
\* "except Exception", which first takes the failure screenshot under the lock
AfterRaise == "failwait"

\* an except handler placed inside the with block: the lock is still held
LockAfterRaise_Held(holder) == holder

\* an exception raised inside "with self.driver_lock" (684-694) reaches the
\* except clause of the enclosing try (695) after the block was left
LockAfterRaise(holder) == ReleasedLock(holder)

\* send_via_outlook_desktop returns (ok) or raises
NativeSend(t, ok) ==
    /\ pc[t] = "native"
    /\ pc' = [pc EXCEPT ![t] = AfterNative(ok)]
    /\ outcome' = [outcome EXCEPT ![t] = IF ok THEN "native_ok" ELSE @]
    /\ delivered' = [delivered EXCEPT ![t] = ok]
    /\ bodyHtml' = [bodyHtml EXCEPT ![t] = taskHtml[t]]
    /\ UNCHANGED <<provider, helperAvailable, now, paused, running, raw_message, sender_var, review_var, html, txLog, hosted_files, disk, fPc, fId, fileResp, sePc, seLog, seRet, shots, tree, taskHtml,
                   <<blur_strength, gaussian_kernel_size, blurArg>>, driver, driver_lock, email_list, guiPc, max_workers, poolWidth, taskEmail, observed,
                   runOf, processed, crashed, runs, minted, sent_count, failed_count,
                   <<tracking_map, rec>>, action_queue, gui_update_queue, recent_replies, arPc, arAct, arNow, arLog, httpVars>>

\* with self.driver_lock: if not self.driver: raise RuntimeError
TaskAcquire(t) ==
    /\ pc[t] = "waitlock"
    /\ CanAcquire(driver_lock)
    /\ IF driver
         THEN /\ driver_lock' = TaskThread(t)
              /\ pc' = [pc EXCEPT ![t] = "compose"]
              /\ UNCHANGED outcome
         ELSE /\ driver_lock' = LockAfterRaise(TaskThread(t))
              /\ pc' = [pc EXCEPT ![t] = AfterRaise]
              /\ outcome' = [outcome EXCEPT ![t] = "no_driver"]
    /\ UNCHANGED <<provider, helperAvailable, now, paused, running, auxVars, driver, email_list, guiPc, max_workers, poolWidth, taskEmail, observed, runOf,
                   delivered, processed, crashed, runs, minted, sent_count,
                   failed_count, tracking_map, rec, action_queue, gui_update_queue,
                   <<recent_replies, arPc, arAct, arNow, arLog>>, httpVars>>

\* how a save_screenshot call can go
ShotResults == {"saved", "exception"}

\* a save_screenshot whose exception leaves the try block around it
ShotRaises_Escaping(shot) == shot = "exception"

\* every save_screenshot is inside try/except: pass (687-692, 696-703,
\* 1479-1484): its exception goes no further
ShotRaises(shot) == FALSE

\* pre-send screenshot, then send_email up to and including the send action
TaskCompose(t, res, shot) ==
    /\ pc[t] = "compose"
    /\ shots' = [shots EXCEPT ![t][1] = shot]
    /\ bodyHtml' = [bodyHtml EXCEPT ![t] =
           IF ~ShotRaises(shot) /\ res = "composed"
             THEN Fragment(taskHtml[t], sender_var, review_var)
             ELSE @]
    /\ IF ShotRaises(shot)
         THEN /\ driver_lock' = LockAfterRaise(driver_lock)
              /\ pc' = [pc EXCEPT ![t] = AfterRaise]
              /\ outcome' = [outcome EXCEPT ![t] = "shot_failed"]
              /\ UNCHANGED delivered
         ELSE IF ComposeRaises(provider, res)
         THEN /\ driver_lock' = LockAfterRaise(driver_lock)
              /\ pc' = [pc EXCEPT ![t] = AfterRaise]
              /\ outcome' = [outcome EXCEPT ![t] = "compose_failed"]
              /\ UNCHANGED delivered
         ELSE /\ pc' = [pc EXCEPT ![t] = "sendreq"]
              /\ delivered' = [delivered EXCEPT ![t] = TRUE]
              /\ UNCHANGED <<driver_lock, outcome>>
    /\ UNCHANGED <<provider, helperAvailable, now, paused, running, raw_message, sender_var, review_var, html, txLog, hosted_files, disk, fPc, fId, fileResp, sePc, seLog, seRet, tree, taskHtml, blur_strength, gaussian_kernel_size, blurArg,
                   driver, email_list, guiPc, max_workers, poolWidth, taskEmail, observed, runOf,
                   processed, crashed, runs, minted, sent_count, failed_count,
                   <<tracking_map, rec>>, action_queue, gui_update_queue, recent_replies, arPc, arAct, arNow, arLog, httpVars>>

\* the confirmation of send_email; return True leaves the with block
TaskConfirm(t, toast, found) ==
    /\ pc[t] = "sendreq"
    /\ LET c == SendEmailConfirm(provider, toast, found)
       IN  /\ pc' = [pc EXCEPT ![t] = IF c = "raise" THEN AfterRaise ELSE "done"]
           /\ outcome' = [outcome EXCEPT ![t] = IF c = "raise" THEN "unconfirmed" ELSE c]
    /\ observed' = [observed EXCEPT ![t] =
           IF SendEmailConfirm(provider, toast, found) = "unchecked" THEN @
           ELSE Seen(toast, found)]
    /\ driver_lock' = (IF SendEmailConfirm(provider, toast, found) = "raise"
                         THEN LockAfterRaise(driver_lock)
                         ELSE ReleasedLock(driver_lock))
    /\ UNCHANGED <<provider, helperAvailable, now, paused, running, auxVars, driver, email_list, guiPc, max_workers, poolWidth, taskEmail, runOf,
                   delivered, processed, crashed, runs, minted, sent_count,
                   failed_count, tracking_map, rec, action_queue, gui_update_queue,
                   <<recent_replies, arPc, arAct, arNow, arLog>>, httpVars>>

\* except Exception: with self.driver_lock: failure screenshot
TaskFailAcquire(t) ==
    /\ pc[t] = "failwait"
    /\ CanAcquire(driver_lock)
    /\ driver_lock' = TaskThread(t)
    /\ pc' = [pc EXCEPT ![t] = "failshot"]
    /\ UNCHANGED <<provider, helperAvailable, now, paused, running, auxVars, driver, email_list, guiPc, max_workers, poolWidth, taskEmail, observed, runOf,
                   outcome, delivered, processed, crashed, runs, minted, sent_count,
                   failed_count, tracking_map, rec, action_queue, gui_update_queue,
                   <<recent_replies, arPc, arAct, arNow, arLog>>, httpVars>>

\* ... if self.driver: the screenshot is taken or fails; the lock is released,
\* return False
TaskFailRelease(t, shot) ==
    /\ pc[t] = "failshot"
    /\ shots' = [shots EXCEPT ![t][2] = IF driver THEN shot ELSE "skipped"]
    /\ outcome' = [outcome EXCEPT ![t] = IF driver /\ ShotRaises(shot) THEN "escaped" ELSE @]
    /\ driver_lock' = ReleasedLock(driver_lock)
    /\ pc' = [pc EXCEPT ![t] = "done"]
    /\ UNCHANGED <<provider, helperAvailable, now, paused, running, raw_message, sender_var, review_var, html, txLog, hosted_files, disk, fPc, fId, fileResp, sePc, seLog, seRet, tree, taskHtml, bodyHtml, blur_strength, gaussian_kernel_size, blurArg,
                   driver, email_list, guiPc, max_workers, poolWidth, taskEmail, observed, runOf,
                   delivered, processed, crashed, runs, minted, sent_count,
                   failed_count, tracking_map, rec, action_queue, gui_update_queue,
                   <<recent_replies, arPc, arAct, arNow, arLog>>, httpVars>>

\* ------------------------------------------------------------ the dispatcher
\* a dispatcher that writes the wrong terminal status
StatusFor_Inverted(success) == IF success THEN "Failed" ELSE "Sent"

\* the status _concurrent_sender writes for a completed task
StatusFor(success) == IF success THEN "Sent" ELSE "Failed"

\* a dispatcher that lets the failure of a task escape the loop
DispatcherDies_OnFailure(success, present) == ~present \/ ~success

\* an exception leaves the as_completed loop: only the KeyError of a record
\* that was removed from tracking_map (raised again inside the except block)
DispatcherDies(success, present) == ~present

\* _concurrent_sender: one iteration of the as_completed loop
ProcessCompletion(t) ==
    /\ pc[t] = "done"
    /\ ~processed[t]
    /\ ~crashed[runOf[t]]
    /\ processed' = [processed EXCEPT ![t] = TRUE]
    /\ LET ok == Success(t)
           present == t \in tracking_map
       IN  IF present
             THEN /\ sent_count' = IF ok THEN sent_count + 1 ELSE sent_count
                  /\ failed_count' = IF ok THEN failed_count ELSE failed_count + 1
                  /\ rec' = [rec EXCEPT ![t].status = StatusFor(ok)]
                  /\ gui_update_queue' = Append(gui_update_queue,
                         <<"update_status", taskEmail[t], StatusFor(ok),
                           IF ok THEN rec[t].sent_time ELSE 0, 0, "No">>)
                  /\ crashed' = [crashed EXCEPT ![runOf[t]] = DispatcherDies(ok, present)]
             ELSE \* KeyError in the try block, KeyError again in the except block
                  /\ sent_count' = IF ok THEN sent_count + 1 ELSE sent_count
                  /\ failed_count' = IF ok THEN failed_count + 1 ELSE failed_count + 2
                  /\ crashed' = [crashed EXCEPT ![runOf[t]] = DispatcherDies(ok, present)]
                  /\ UNCHANGED <<rec, gui_update_queue>>
    /\ UNCHANGED <<provider, helperAvailable, now, paused, running, auxVars, driver, driver_lock, email_list, guiPc, max_workers, poolWidth, taskEmail, observed,
                   runOf, pc, outcome, delivered, runs, minted, tracking_map,
                   action_queue, recent_replies, arPc, arAct, arNow, arLog, httpVars>>


\* ------------------------------------------------------ the auto-reply worker
\* the rate gate of action_worker: now - last < 3600 skips the action
RateGateSkips(t, last) == t - last < Cooldown

\* action_worker: take an action, sample the time, apply the rate gate
ReplyGet ==
    /\ arPc = "idle"
    /\ action_queue # <<>>
    /\ action_queue' = Tail(action_queue)
    /\ LET a == Head(action_queue)
       IN  IF RateGateSkips(now, recent_replies[a[1]])
             THEN UNCHANGED <<arPc, arAct, arNow>>
             ELSE /\ arPc' = "wait"
                  /\ arAct' = a
                  /\ arNow' = now
    /\ UNCHANGED <<provider, helperAvailable, now, paused, running, auxVars, driver, driver_lock, email_list, guiPc, dispVars, tracking_map, rec,
                   gui_update_queue, recent_replies, arLog, httpVars>>

\* with self.driver_lock: if self.driver: ... else: log and leave
ReplyAcquire ==
    /\ arPc = "wait"
    /\ CanAcquire(driver_lock)
    /\ IF driver
         THEN /\ driver_lock' = ReplyThread
              /\ arPc' = "send"
              /\ UNCHANGED <<arAct, arNow>>
         ELSE /\ driver_lock' = ReleasedLock(ReplyThread)
              /\ arPc' = "idle"
              /\ arAct' = NoAction
              /\ arNow' = 0
    /\ UNCHANGED <<provider, helperAvailable, now, paused, running, auxVars, driver, email_list, guiPc, dispVars, tracking_map, rec, action_queue,
                   gui_update_queue, recent_replies, arLog, httpVars>>

\* a worker without the except clause: the exception ends the thread
AfterReply_Uncaught(ok) == IF ok THEN "idle" ELSE "dead"

\* after send_email returned, or raised into "except Exception" (1999-2000),
\* the worker calls task_done and is at the top of its "while True" again
AfterReply(ok) == "idle"

\* send_email(email, reply_html, ...) returns (ok) or raises; on return the
\* sampled time is stored and the record, if still in the store, is flagged
ReplySend(res, toast, found) ==
    /\ arPc = "send"
    /\ LET email == arAct[1]
           tid == arAct[2]
           ok == /\ ~ComposeRaises(provider, res)
                 /\ SendEmailConfirm(provider, toast, found) # "raise"
       IN  IF ok
             THEN /\ recent_replies' = [recent_replies EXCEPT ![email] = arNow]
                  /\ arLog' = Append(arLog, <<email, now>>)
                  /\ IF tid \in tracking_map
                       THEN /\ rec' = [rec EXCEPT ![tid].replied = TRUE]
                            /\ gui_update_queue' = Append(gui_update_queue,
                                   <<"update_replied", rec[tid].email, "Yes">>)
                       ELSE UNCHANGED <<rec, gui_update_queue>>
             ELSE UNCHANGED <<recent_replies, arLog, rec, gui_update_queue>>
    /\ driver_lock' = ReleasedLock(driver_lock)
    /\ arPc' = AfterReply(/\ ~ComposeRaises(provider, res)
                          /\ SendEmailConfirm(provider, toast, found) # "raise")
    /\ arAct' = NoAction
    /\ arNow' = 0
    /\ UNCHANGED <<provider, helperAvailable, now, paused, running, auxVars, driver, email_list, guiPc, dispVars, tracking_map, action_queue,
                   httpVars>>

\* ------------------------------------------------------- the pixel endpoint
GifResponse == "200 image/gif"

\* an endpoint that answers an unknown id with an error
TrackResponse_ErrorOnUnknown(known) == IF known THEN GifResponse ELSE "404"

\* _one_by_one_gif_response: what track() returns, whatever the id
TrackResponse(known) == GifResponse

\* the flag is not set after the put
RepliedAfterEnqueue_Forgotten == FALSE

\* after the auto_reply action is put: entry["replied"] = True
RepliedAfterEnqueue == TRUE

\* ids a request can carry: none, one that was never minted, or the id in the
\* pixel of a message that has left

\* a handler that rebuilds the record and loses the sent time
MarkOpened_DropsSent(r, ts) ==
    [r EXCEPT !.opened_time = ts, !.status = "Opened", !.sent_time = 0]

\* entry["opened_time"] = ts; entry["status"] = "Opened"
MarkOpened(r, ts) == [r EXCEPT !.opened_time = ts, !.status = "Opened"]

\* track(), lines 2014-2023: read the id, look the entry up; unknown: respond;
\* known: set opened_time and status
TrackStart(h, id) ==
    /\ hPc[h] = "idle"
    /\ hits < MaxHits
    /\ id \in {EmptyId, GhostId} \cup {t \in Ids : delivered[t]}
    /\ hits' = hits + 1
    /\ IF id \in tracking_map
         THEN /\ rec' = [rec EXCEPT ![id] = MarkOpened(@, now)]
              /\ hPc' = [hPc EXCEPT ![h] = "notify"]
              /\ hId' = [hId EXCEPT ![h] = id]
              /\ hTs' = [hTs EXCEPT ![h] = now]
              /\ hSeq' = [hSeq EXCEPT ![h] = doneHits[id] > 0]
              /\ UNCHANGED lastResp
         ELSE /\ lastResp' = TrackResponse(FALSE)
              /\ UNCHANGED <<rec, hPc, hId, hTs, hSeq>>
    /\ UNCHANGED <<provider, helperAvailable, now, paused, running, auxVars, driver, driver_lock, email_list, guiPc, dispVars, tracking_map,
                   action_queue, gui_update_queue, recent_replies, arPc, arAct, arNow, arLog, doneHits, enq>>

\* the handler returns: its locals are gone
TrackReturn(h) ==
    /\ hPc' = [hPc EXCEPT ![h] = "idle"]
    /\ hId' = [hId EXCEPT ![h] = EmptyId]
    /\ hTs' = [hTs EXCEPT ![h] = 0]
    /\ hSeq' = [hSeq EXCEPT ![h] = FALSE]
    /\ lastResp' = TrackResponse(TRUE)
    /\ doneHits' = [doneHits EXCEPT ![hId[h]] = @ + 1]

\* lines 2025-2026: report the open to the GUI, read the replied flag
TrackNotify(h) ==
    /\ hPc[h] = "notify"
    /\ LET id == hId[h]
       IN  /\ gui_update_queue' = Append(gui_update_queue,
                  <<"update_status", rec[id].email, "Opened", rec[id].sent_time, hTs[h], "No">>)
           /\ IF ~rec[id].replied
                THEN /\ hPc' = [hPc EXCEPT ![h] = "enqueue"]
                     /\ UNCHANGED <<hId, hTs, hSeq, lastResp, doneHits>>
                ELSE TrackReturn(h)
    /\ UNCHANGED <<provider, helperAvailable, now, paused, running, auxVars, driver, driver_lock, email_list, guiPc, dispVars, tracking_map, rec,
                   action_queue, recent_replies, arPc, arAct, arNow, arLog, hits, enq>>

\* lines 2027-2032: put the auto_reply action, set replied, report, respond
TrackEnqueue(h) ==
    /\ hPc[h] = "enqueue"
    /\ LET id == hId[h]
       IN  /\ action_queue' = Append(action_queue, <<rec[id].email, id>>)
           /\ enq' = [enq EXCEPT ![id] = @ + 1]
           /\ rec' = [rec EXCEPT ![id].replied = RepliedAfterEnqueue]
           /\ gui_update_queue' = Append(gui_update_queue,
                  <<"update_replied", rec[id].email, "Yes">>)
    /\ TrackReturn(h)
    /\ UNCHANGED <<provider, helperAvailable, now, paused, running, auxVars, driver, driver_lock, email_list, guiPc, dispVars, tracking_map,
                   <<recent_replies, arPc, arAct, arNow, arLog>>, hits>>

\* ------------------------------------------------------------------ the clock
\* half a cool-down passes; no request handler is in flight that long
Tick ==
    /\ now < Epoch + MaxTicks * TickStep
    /\ \A h \in HttpThreads : hPc[h] = "idle"
    /\ now' = now + TickStep
    /\ UNCHANGED <<provider, helperAvailable, paused, running, auxVars, driver, driver_lock, email_list, guiPc, dispVars,
                   <<tracking_map, rec>>, action_queue, gui_update_queue, recent_replies, arPc, arAct, arNow, arLog, httpVars>>

\* ----------------------------------- the fragment functions as actions
MaxOps == 3

\* one more fragment function is applied to the text, as start_sending
\* (614-619) and send_email (2121-2123) do
extract_body_fragment ==
    /\ Len(txLog) < MaxOps
    /\ html' = ExtractBodyFragment(html)
    /\ txLog' = Append(txLog, "extract")
    /\ UNCHANGED <<provider, helperAvailable, now, programVars, blur_strength, gaussian_kernel_size, blurArg, raw_message, sender_var, review_var, hosted_files, disk, fPc, fId, fileResp, sePc, seLog, seRet>>

inject_placeholders ==
    /\ Len(txLog) < MaxOps
    /\ html' = InjectPlaceholders(html, sender_var, review_var)
    /\ txLog' = Append(txLog, "inject")
    /\ UNCHANGED <<provider, helperAvailable, now, programVars, blur_strength, gaussian_kernel_size, blurArg, raw_message, sender_var, review_var, hosted_files, disk, fPc, fId, fileResp, sePc, seLog, seRet>>

ensure_review_fallback ==
    /\ Len(txLog) < MaxOps
    /\ html' = EnsureReviewFallback(html, review_var)
    /\ txLog' = Append(txLog, "ensure")
    /\ UNCHANGED <<provider, helperAvailable, now, programVars, blur_strength, gaussian_kernel_size, blurArg, raw_message, sender_var, review_var, hosted_files, disk, fPc, fId, fileResp, sePc, seLog, seRet>>


\* ----------------------------------- hosted documents and the /file endpoint
\* dest_path of the copy made for file id f
DestPath(f) == <<"hosted", f>>
\* the URL put into the message and into the Review URL field
HostedUrl == "http://host/file"
AnchorBlock == <<"<p>", "<a href=", HostedUrl, "</a>", "</p>">>

\* host_document_and_insert_link: a fresh id, the copy in hosted_dir, the
\* entry in hosted_files, the anchor inserted at the cursor (start or end of
\* the text here) and the Review URL field set
host_document_and_insert_link(f, atEnd) ==
    /\ hosted_files[f] = NoMeta
    /\ disk' = disk \cup {DestPath(f)}
    /\ hosted_files' = [hosted_files EXCEPT ![f] = DestPath(f)]
    /\ raw_message' = IF atEnd THEN raw_message \o AnchorBlock
                      ELSE AnchorBlock \o raw_message
    /\ review_var' = HostedUrl
    /\ UNCHANGED <<provider, helperAvailable, now, programVars, blur_strength, gaussian_kernel_size, blurArg, sender_var, html, txLog,
                   fPc, fId, fileResp, sePc, seLog, seRet>>

\* the environment removes a hosted copy from disk
RemoveHostedCopy(p) ==
    /\ p \in disk
    /\ disk' = disk \ {p}
    /\ UNCHANGED <<provider, helperAvailable, now, programVars, blur_strength, gaussian_kernel_size, blurArg, raw_message, sender_var, review_var, html, txLog, hosted_files,
                   fPc, fId, fileResp, sePc, seLog, seRet>>

\* a serve_file that answers for a stored path whatever the disk holds
FileNotFound_NoExistsCheck(meta) == meta = NoMeta

\* serve_file, lines 2036-2041: no entry, or the stored path does not exist
FileNotFound(meta) == meta = NoMeta \/ meta \notin disk

\* hosted_files.get(fid)
MetaOf(fid) == IF fid \in FileIds THEN hosted_files[fid] ELSE NoMeta

\* serve_file up to the two 404 returns
ServeFileCheck(fid) ==
    /\ fPc = "idle"
    /\ fId' = fid
    /\ IF FileNotFound(MetaOf(fid))
       THEN fPc' = "idle" /\ fileResp' = "404"
       ELSE fPc' = "send" /\ fileResp' = "none"
    /\ UNCHANGED <<provider, helperAvailable, now, programVars, blur_strength, gaussian_kernel_size, blurArg, raw_message, sender_var, review_var, html, txLog, hosted_files, disk, sePc, seLog, seRet>>

\* send_file(path): the bytes, or the 500 of the except block when the copy
\* is gone by now
ServeFileSend ==
    /\ fPc = "send"
    /\ fPc' = "idle"
    /\ fileResp' = IF MetaOf(fId) \in disk THEN "200" ELSE "500"
    /\ UNCHANGED <<provider, helperAvailable, now, programVars, blur_strength, gaussian_kernel_size, blurArg, raw_message, sender_var, review_var, html, txLog, hosted_files, disk, fId, sePc, seLog, seRet>>


\* ------------------------------------------ one call of send_email, in detail
\* One call of send_email as _send_single_email makes it under driver_lock.
\* seLog records what the call did: <<phase, what, result>> entries.  What
\* the browser answers (tokenization, read-backs, file inputs, buttons, toast)
\* is chosen freely.  The subject field is set between recipient and body and
\* has no influence on the outcome (_set_input_value_generic returns a value
\* that send_email ignores).

\* the branches of send_email that name a provider; the others take the
\* generic branch
Named(p) == IsGmail(p) \/ IsOutlook(p) \/ IsComcast(p)

\* the provider argument of the call
SeProvider == seLog[1][2]
\* the stripped body text is shorter than the 60 compared characters
SeShort == seLog[1][3] = "short"

PhaseLog(phase) == SelectSeq(seLog, LAMBDA e : e[1] = phase)
Tries(phase) ==
    SelectSeq(seLog, LAMBDA e : e[1] = phase /\ e[2] \notin {"screenshot", "return"})

SendEmailStart(short) ==
    /\ sePc = "idle"
    /\ sePc' = "recipient"
    /\ seLog' = <<<<"start", provider, IF short THEN "short" ELSE "long">>>>
    /\ UNCHANGED <<provider, helperAvailable, now, programVars, blur_strength, gaussian_kernel_size, blurArg, raw_message, sender_var, review_var, html, txLog, hosted_files, disk, fPc, fId, fileResp, seRet>>

\* _set_recipient_general: attempts 1 to 4
RecipientStrategies ==
    <<"container_typing", "global_typing", "script_injection", "clipboard_paste">>
RecipientResults == {"tokenized", "not_tokenized", "exception"}

\* an engine that leaves out the JS-assisted attempt
StrategyAfter_SkipScript(n) == IF n = 2 THEN 4 ELSE n + 1

\* the attempt made after n attempts
StrategyAfter(n) == n + 1

\* a failed recipient or body injection raises in the Gmail, Outlook.com and
\* Comcast branches; the generic branch swallows the exception
AfterInjection(p, ok, next) == IF ~ok /\ Named(p) THEN "done" ELSE next

\* one attempt: "return True" when the tokenization is detected, else the
\* next attempt, and after the last one the screenshot
RecipientTry(res) ==
    /\ sePc = "recipient"
    /\ LET k == StrategyAfter(Len(Tries("recipient")))
           entry == <<"recipient", RecipientStrategies[k], res>>
       IN  /\ k <= Len(RecipientStrategies)
           /\ IF res = "tokenized"
              THEN /\ seLog' = seLog \o <<entry, <<"recipient", "return", "true">>>>
                   /\ sePc' = AfterInjection(SeProvider, TRUE, "body")
              ELSE /\ seLog' = Append(seLog, entry)
                   /\ sePc' = IF StrategyAfter(k) > Len(RecipientStrategies)
                              THEN "recipient_shot" ELSE "recipient"
    /\ UNCHANGED <<provider, helperAvailable, now, programVars, blur_strength, gaussian_kernel_size, blurArg, raw_message, sender_var, review_var, html, txLog, hosted_files, disk, fPc, fId, fileResp, seRet>>

\* final: save_screenshot in try/except, return False
RecipientScreenshot(saved) ==
    /\ sePc = "recipient_shot"
    /\ LET shot == IF saved THEN "saved" ELSE "exception"
       IN  seLog' = seLog \o <<<<"recipient", "screenshot", shot>>,
                               <<"recipient", "return",
                                 IF ShotRaises(shot) THEN "raise" ELSE "false">>>>
    /\ sePc' = AfterInjection(SeProvider, FALSE, "body")
    /\ seRet' = IF AfterInjection(SeProvider, FALSE, "body") = "done" THEN "raise" ELSE seRet
    /\ UNCHANGED <<provider, helperAvailable, now, programVars, blur_strength, gaussian_kernel_size, blurArg, raw_message, sender_var, review_var, html, txLog, hosted_files, disk, fPc, fId, fileResp>>

\* _set_body_html_generic on the element of a selector: innerHTML assignment,
\* execCommand insertHTML, clipboard paste, _force_set_body_element; then the
\* iframe attempt (iframe_ok) and the final typed fallback over any editable
BodySteps ==
    <<"assign", "insert_html", "clipboard_paste", "typed_plain", "iframe_insert", "final_typed">>

\* what reading the editor back gives: the first 60 characters of the text
\* are the wanted ones, a non-empty text that differs, an empty text, an
\* exception; "none": the step did not get to a read-back; "unread": the
\* iframe attempt inserted and nothing was read back
ReadBacks(step) ==
    CASE step = "assign" -> {"match", "differs", "empty", "raise"}
      [] step = "insert_html" -> {"none", "match", "differs", "empty", "raise"}
      [] step = "clipboard_paste" -> {"none", "match", "differs", "empty", "raise"}
      [] step = "typed_plain" -> {"match", "differs", "empty", "raise"}
      [] step = "iframe_insert" -> {"none", "unread"}
      [] OTHER -> {"none", "match", "differs", "empty", "raise"}

\* the step makes _set_body_html_generic return True
BodyStepOk(step, rb) ==
    CASE step \in {"assign", "insert_html"} -> rb \in {"match", "differs", "raise"}
      [] step = "iframe_insert" -> rb = "unread"
      [] OTHER -> rb \in {"match", "differs"}

\* the step after step k; the iframe attempt is made with iframe_ok only,
\* which the generic branch passes
BodyStepAfter(k, p) == IF k = 4 /\ Named(p) THEN 6 ELSE k + 1

BodyTry(rb) ==
    /\ sePc = "body"
    /\ LET n == Len(Tries("body"))
           k == IF n = 0 THEN 1
                ELSE BodyStepAfter(CHOOSE j \in 1..Len(BodySteps) :
                                       BodySteps[j] = Tries("body")[n][2], SeProvider)
           entry == <<"body", BodySteps[k], rb>>
       IN  /\ k <= Len(BodySteps)
           /\ rb \in ReadBacks(BodySteps[k])
           /\ IF BodyStepOk(BodySteps[k], rb)
              THEN /\ seLog' = seLog \o <<entry, <<"body", "return", "true">>>>
                   /\ sePc' = AfterInjection(SeProvider, TRUE, "attach")
                   /\ UNCHANGED seRet
              ELSE IF BodyStepAfter(k, SeProvider) > Len(BodySteps)
              THEN /\ seLog' = seLog \o <<entry, <<"body", "return", "false">>>>
                   /\ sePc' = AfterInjection(SeProvider, FALSE, "attach")
                   /\ seRet' = IF AfterInjection(SeProvider, FALSE, "attach") = "done"
                               THEN "raise" ELSE seRet
              ELSE /\ seLog' = Append(seLog, entry)
                   /\ UNCHANGED <<sePc, seRet>>
    /\ UNCHANGED <<provider, helperAvailable, now, programVars, blur_strength, gaussian_kernel_size, blurArg, raw_message, sender_var, review_var, html, txLog, hosted_files, disk, fPc, fId, fileResp>>

\* _attach_file_to_compose: no attachment chosen, no file input on the page,
\* send_keys on the input raised, the file name seen in the compose or not
\* seen before the timeout, or another exception inside the function
AttachOutcomes ==
    {"none_configured", "no_input", "send_keys_failed", "attached_visible",
     "attached_unseen", "error"}

\* a function that returns True only when the file name was seen
AttachReturn_OnlyVisible(o) == o = "attached_visible"

\* the value _attach_file_to_compose returns
AttachReturn(o) == o \in {"attached_visible", "attached_unseen"}

\* a send_email that gives up when the attachment was not added
AfterAttach_Hard(o) == IF o \in {"no_input", "send_keys_failed"} THEN "done" ELSE "send"

\* send_email goes on to the send action whatever the attachment attempt did
AfterAttach(o) == "send"

AttachFile(o) ==
    /\ sePc = "attach"
    /\ seLog' = Append(seLog, <<"attach", o, IF AttachReturn(o) THEN "true" ELSE "false">>)
    /\ sePc' = AfterAttach(o)
    /\ seRet' = IF AfterAttach(o) = "done" THEN "raise" ELSE seRet
    /\ UNCHANGED <<provider, helperAvailable, now, programVars, blur_strength, gaussian_kernel_size, blurArg, raw_message, sender_var, review_var, html, txLog, hosted_files, disk, fPc, fId, fileResp>>

\* the send action: the Send control is clicked, or without one Ctrl+Enter
\* goes to the body element, or neither works and the exception is swallowed;
\* the generic branch only has Ctrl+Enter and returns True after it

SendAction(how) ==
    /\ sePc = "send"
    /\ how \in (IF Named(SeProvider) THEN {"click", "shortcut", "none"} ELSE {"shortcut", "none"})
    /\ seLog' = Append(seLog, <<"send", how, "">>)
    /\ IF Named(SeProvider)
       THEN sePc' = "confirm" /\ UNCHANGED seRet
       ELSE sePc' = "done" /\ seRet' = "True"
    /\ UNCHANGED <<provider, helperAvailable, now, programVars, blur_strength, gaussian_kernel_size, blurArg, raw_message, sender_var, review_var, html, txLog, hosted_files, disk, fPc, fId, fileResp>>

\* _wait_for_send_toast, then _confirm_sent
ConfirmSend(toast, found) ==
    /\ sePc = "confirm"
    /\ LET c == SendEmailConfirm(SeProvider, toast, found)
       IN  /\ seLog' = Append(seLog, <<"confirm", Seen(toast, found), c>>)
           /\ seRet' = IF c = "raise" THEN "raise" ELSE "True"
    /\ sePc' = "done"
    /\ UNCHANGED <<provider, helperAvailable, now, programVars, blur_strength, gaussian_kernel_size, blurArg, raw_message, sender_var, review_var, html, txLog, hosted_files, disk, fPc, fId, fileResp>>


\* ------------------------------------------------------------ specification
\* every step of every thread
\* the steps of a task on the browser path, and the dispatcher's handling
BrowserTaskSteps(S) ==
    \/ \E t \in Ids : StartTask(t)
    \/ \E t \in Ids : TaskAcquire(t)
    \/ \E t \in Ids, res \in ComposeResults, shot \in S : TaskCompose(t, res, shot)
    \/ \E t \in Ids, toast \in BOOLEAN, found \in BOOLEAN : TaskConfirm(t, toast, found)
    \/ \E t \in Ids : TaskFailAcquire(t)
    \/ \E t \in Ids, shot \in S : TaskFailRelease(t, shot)
    \/ \E t \in Ids : ProcessCompletion(t)

\* ... in the scenarios where every screenshot is saved
BrowserTaskStep == BrowserTaskSteps({"saved"})

\* ... and with the Outlook desktop path, taken only for an Outlook provider
TaskStep ==
    \/ BrowserTaskStep
    \/ \E t \in Ids, ok \in BOOLEAN : NativeSend(t, ok)

ReplyStep ==
    \/ ReplyGet
    \/ ReplyAcquire
    \/ \E res \in ComposeResults, toast \in BOOLEAN, found \in BOOLEAN : ReplySend(res, toast, found)

TrackStep ==
    \/ \E h \in HttpThreads, id \in Ids \cup {EmptyId, GhostId} : TrackStart(h, id)
    \/ \E h \in HttpThreads : TrackNotify(h)
    \/ \E h \in HttpThreads : TrackEnqueue(h)

Next ==
    \/ \E p \in Providers : SelectProvider(p)
    \/ \E l \in RecipientLists : load_emails(l)
    \/ \E e \in Emails : remove_selected(e)
    \/ process_gui_updates
    \/ \E ok \in BOOLEAN : open_chrome_and_login(ok)
    \/ \E w \in Widths : minted + Len(email_list) <= MaxTasks /\ start_sending(w)
    \/ GuiAcquire
    \/ GuiRelease
    \/ pause
    \/ stop
    \/ BrowserTaskSteps(ShotResults)
    \/ \E t \in Ids, ok \in BOOLEAN : NativeSend(t, ok)
    \/ ReplyStep
    \/ TrackStep
    \/ Tick

\* the whole program with every environment
Spec == Init /\ [][Next]_vars

\* The dispatch scenario: every provider, list, pool width and removal, while
\* no recipient opens a message (no request reaches /track, so action_worker
\* has nothing to do and the clock is not read).
NextDispatch ==
    \/ \E p \in Providers : SelectProvider(p)
    \/ \E l \in RecipientLists : load_emails(l)
    \/ \E e \in Emails : remove_selected(e)
    \/ process_gui_updates
    \/ \E ok \in BOOLEAN : open_chrome_and_login(ok)
    \/ \E w \in Widths : minted + Len(email_list) <= MaxTasks /\ start_sending(w)
    \/ GuiAcquire
    \/ GuiRelease
    \/ TaskStep

SpecDispatch == Init /\ [][NextDispatch]_vars

\* The tracking scenario: Gmail, pool width 1, one run, Chrome opened before
\* it; messages are opened and /track is requested with known and unknown ids
\* from several HTTP threads; action_worker replies.
NextTrack ==
    \/ \E l \in RecipientLists : load_emails(l)
    \/ \E ok \in BOOLEAN : ~driver /\ runs = 0 /\ open_chrome_and_login(ok)
    \/ runs = 0 /\ start_sending(1)
    \/ GuiAcquire
    \/ GuiRelease
    \/ BrowserTaskStep
    \/ ReplyStep
    \/ TrackStep

SpecTrack == Init /\ [][NextTrack]_vars

\* The lock scenario: Gmail or Outlook.com (with the warm-up and the native
\* path), both pool widths, Chrome opened and re-opened at any time, one run,
\* one opened message, so that pool threads, action_worker and the GUI thread
\* all contend for driver_lock.
NextLock ==
    \/ SelectProvider("Outlook.com")
    \/ \E l \in RecipientLists : load_emails(l)
    \/ \E ok \in BOOLEAN : open_chrome_and_login(ok)
    \/ \E w \in Widths : runs = 0 /\ start_sending(w)
    \/ GuiAcquire
    \/ GuiRelease
    \/ TaskStep
    \/ ReplyStep
    \/ \E id \in Ids : hits < 1 /\ TrackStart(1, id)
    \/ TrackNotify(1)
    \/ TrackEnqueue(1)

SpecLock == Init /\ [][NextLock]_vars

\* The reply scenario: Gmail, a list that names one address twice, pool
\* width 1, one run, Chrome opened before it; both messages are opened, one
\* request at a time, action_worker replies and the clock advances.
NextReply ==
    \/ load_emails(<<"a@x", "a@x">>)
    \/ \E ok \in BOOLEAN : ~driver /\ runs = 0 /\ open_chrome_and_login(ok)
    \/ runs = 0 /\ start_sending(1)
    \/ GuiAcquire
    \/ GuiRelease
    \/ BrowserTaskStep
    \/ ReplyStep
    \/ \E id \in Ids : TrackStart(1, id)
    \/ TrackNotify(1)
    \/ TrackEnqueue(1)
    \/ Tick

SpecReply == Init /\ [][NextReply]_vars

\* The control scenario: Gmail, both pool widths, one run, Chrome opened
\* before it; the operator presses PAUSE and STOP at any time during the run.
NextControl ==
    \/ \E l \in RecipientLists : load_emails(l)
    \/ \E ok \in BOOLEAN : ~driver /\ runs = 0 /\ open_chrome_and_login(ok)
    \/ \E w \in Widths : runs = 0 /\ start_sending(w)
    \/ GuiAcquire
    \/ GuiRelease
    \/ pause
    \/ stop
    \/ process_gui_updates
    \/ BrowserTaskStep

SpecControl == Init /\ [][NextControl]_vars

\* The batch scenario: Gmail, pool width 1, one run of up to MaxBatch
\* recipients, Chrome opened before it or not at all; nobody edits the list
\* during the run and no message is opened.
NextBatch ==
    \/ \E l \in BatchLists : load_emails(l)
    \/ \E ok \in BOOLEAN : ~driver /\ runs = 0 /\ open_chrome_and_login(ok)
    \/ runs = 0 /\ start_sending(1)
    \/ GuiAcquire
    \/ GuiRelease
    \/ process_gui_updates
    \/ BrowserTaskStep

SpecBatch == Init /\ [][NextBatch]_vars

\* The pool scenario: Gmail, both pool widths, one run of up to MaxBatch
\* recipients, Chrome opened before it or not at all.
NextPool ==
    \/ \E l \in BatchLists : load_emails(l)
    \/ \E ok \in BOOLEAN : ~driver /\ runs = 0 /\ open_chrome_and_login(ok)
    \/ \E w \in Widths : runs = 0 /\ start_sending(w)
    \/ GuiAcquire
    \/ GuiRelease
    \/ BrowserTaskStep

SpecPool == Init /\ [][NextPool]_vars

\* The screenshot scenario: Gmail, pool width 1, one run, Chrome opened before
\* it or not at all; every screenshot is saved or fails; beside it one call of
\* send_email up to the end of its recipient injection.
NextShots ==
    \/ \E l \in RecipientLists : load_emails(l)
    \/ \E ok \in BOOLEAN : ~driver /\ runs = 0 /\ open_chrome_and_login(ok)
    \/ runs = 0 /\ start_sending(1)
    \/ GuiAcquire
    \/ GuiRelease
    \/ BrowserTaskSteps(ShotResults)
    \/ SendEmailStart(FALSE)
    \/ \E res \in RecipientResults : RecipientTry(res)
    \/ \E saved \in BOOLEAN : RecipientScreenshot(saved)

SpecShots == Init /\ [][NextShots]_vars


\* The fragment functions on their own: the message box holds any of the
\* documents, the sender and review fields are empty or set, and the functions
\* are applied in any order.
InitText ==
    /\ provider = "Gmail"
    /\ helperAvailable \in BOOLEAN
    /\ driver = FALSE
    /\ driver_lock = NoHolder
    /\ email_list = <<>>
    /\ max_workers = 1
    /\ poolWidth = [r \in 1..MaxRuns |-> 0]
    /\ tracking_map = {}
    /\ rec = [t \in Ids |-> NoRec]
    /\ taskEmail = [t \in Ids |-> ""]
    /\ observed = [t \in Ids |-> "none"]
    /\ runOf = [t \in Ids |-> 0]
    /\ pc = [t \in Ids |-> "none"]
    /\ outcome = [t \in Ids |-> "none"]
    /\ delivered = [t \in Ids |-> FALSE]
    /\ processed = [t \in Ids |-> FALSE]
    /\ crashed = [r \in 1..MaxRuns |-> FALSE]
    /\ runs = 0
    /\ minted = 0
    /\ sent_count = 0
    /\ failed_count = 0
    /\ action_queue = <<>>
    /\ gui_update_queue = <<>>
    /\ recent_replies = [e \in Emails |-> 0]
    /\ now = Epoch
    /\ guiPc = "idle"
    /\ arPc = "idle"
    /\ arAct = NoAction
    /\ arNow = 0
    /\ hPc = [h \in HttpThreads |-> "idle"]
    /\ hId = [h \in HttpThreads |-> EmptyId]
    /\ hTs = [h \in HttpThreads |-> 0]
    /\ hSeq = [h \in HttpThreads |-> FALSE]
    /\ hits = 0
    /\ doneHits = [t \in Ids |-> 0]
    /\ enq = [t \in Ids |-> 0]
    /\ lastResp = "none"
    /\ paused = FALSE
    /\ running = FALSE
    /\ arLog = <<>>
    /\ raw_message \in Docs
    /\ sender_var \in {"", SenderValue}
    /\ review_var \in {"", ReviewUrl}
    /\ html = raw_message
    /\ txLog = <<>>
    /\ hosted_files = [f \in FileIds |-> NoMeta]
    /\ disk = {}
    /\ fPc = "idle"
    /\ fId = 0
    /\ fileResp = "none"
    /\ sePc = "idle"
    /\ seLog = <<>>
    /\ seRet = "none"
    /\ shots = [t \in Ids |-> NoShots]
    /\ tree = [e \in Emails |-> NoRow]
    /\ taskHtml = [t \in Ids |-> NoHtml]
    /\ bodyHtml = [t \in Ids |-> NoHtml]
    /\ blur_strength = BlurDefault
    /\ gaussian_kernel_size = <<BlurDefault, BlurDefault>>
    /\ blurArg = BlurDefault

NextText ==
    \/ extract_body_fragment
    \/ inject_placeholders
    \/ ensure_review_fallback

SpecText == InitText /\ [][NextText]_vars

\* The pixel scenario: the message box holds one of the templates, the sender
\* and review fields are empty or set; Gmail or Outlook.com with or without
\* the desktop helper, pool width 1, one run.
Templates ==
    {<<>>,
     <<"<p>", "hi", "</p>">>,
     <<"<!doctype>", "<html>", "<head>", "<meta>", "<title>", "T", "</title>", "</head>",
       "<body>", Ws>> \o SenderToken \o ReviewToken \o <<Ws, "</body>", "</html>">>,
     <<"<html>", "<head>", "<title>", "T", "</title>", "</head>">> \o AudioToken \o <<"</html>">>,
     <<"<p>", "hi", "</p>", OpenMeta>>,
     ReviewToken \o <<OpenMeta>>}

InitPixel ==
    /\ provider = "Gmail"
    /\ helperAvailable \in BOOLEAN
    /\ driver = FALSE
    /\ driver_lock = NoHolder
    /\ email_list = <<>>
    /\ max_workers = 1
    /\ poolWidth = [r \in 1..MaxRuns |-> 0]
    /\ tracking_map = {}
    /\ rec = [t \in Ids |-> NoRec]
    /\ taskEmail = [t \in Ids |-> ""]
    /\ observed = [t \in Ids |-> "none"]
    /\ runOf = [t \in Ids |-> 0]
    /\ pc = [t \in Ids |-> "none"]
    /\ outcome = [t \in Ids |-> "none"]
    /\ delivered = [t \in Ids |-> FALSE]
    /\ processed = [t \in Ids |-> FALSE]
    /\ crashed = [r \in 1..MaxRuns |-> FALSE]
    /\ runs = 0
    /\ minted = 0
    /\ sent_count = 0
    /\ failed_count = 0
    /\ action_queue = <<>>
    /\ gui_update_queue = <<>>
    /\ recent_replies = [e \in Emails |-> 0]
    /\ now = Epoch
    /\ guiPc = "idle"
    /\ arPc = "idle"
    /\ arAct = NoAction
    /\ arNow = 0
    /\ hPc = [h \in HttpThreads |-> "idle"]
    /\ hId = [h \in HttpThreads |-> EmptyId]
    /\ hTs = [h \in HttpThreads |-> 0]
    /\ hSeq = [h \in HttpThreads |-> FALSE]
    /\ hits = 0
    /\ doneHits = [t \in Ids |-> 0]
    /\ enq = [t \in Ids |-> 0]
    /\ lastResp = "none"
    /\ paused = FALSE
    /\ running = FALSE
    /\ arLog = <<>>
    /\ raw_message \in Templates
    /\ sender_var \in {"", SenderValue}
    /\ review_var \in {"", ReviewUrl}
    /\ html = <<>>
    /\ txLog = <<>>
    /\ hosted_files = [f \in FileIds |-> NoMeta]
    /\ disk = {}
    /\ fPc = "idle"
    /\ fId = 0
    /\ fileResp = "none"
    /\ sePc = "idle"
    /\ seLog = <<>>
    /\ seRet = "none"
    /\ shots = [t \in Ids |-> NoShots]
    /\ tree = [e \in Emails |-> NoRow]
    /\ taskHtml = [t \in Ids |-> NoHtml]
    /\ bodyHtml = [t \in Ids |-> NoHtml]
    /\ blur_strength = BlurDefault
    /\ gaussian_kernel_size = <<BlurDefault, BlurDefault>>
    /\ blurArg = BlurDefault

NextPixel ==
    \/ SelectProvider("Outlook.com")
    \/ \E l \in RecipientLists : load_emails(l)
    \/ ~driver /\ runs = 0 /\ open_chrome_and_login(TRUE)
    \/ runs = 0 /\ start_sending(1)
    \/ GuiAcquire
    \/ GuiRelease
    \/ BrowserTaskStep
    \/ \E t \in Ids, ok \in BOOLEAN : NativeSend(t, ok)

SpecPixel == InitPixel /\ [][NextPixel]_vars

\* The table scenario: Gmail, pool width 1, one run, Chrome opened before it;
\* messages are opened while the run goes on and the timer callback drains
\* gui_update_queue into the table at any time.
NextTable ==
    \/ \E l \in RecipientLists : load_emails(l)
    \/ ~driver /\ runs = 0 /\ open_chrome_and_login(TRUE)
    \/ runs = 0 /\ start_sending(1)
    \/ GuiAcquire
    \/ GuiRelease
    \/ BrowserTaskStep
    \/ TrackStep
    \/ process_gui_updates

SpecTable == Init /\ [][NextTable]_vars

\* The worker scenario: Outlook.com with or without the desktop helper, a list
\* that names one address twice, pool width 1, one run, Chrome opened before
\* it or not at all; messages are opened, one request at a time, and
\* action_worker replies.
NextWorker ==
    \/ email_list = <<>> /\ SelectProvider("Outlook.com")
    \/ IsOutlook(provider) /\ email_list = <<>> /\ load_emails(<<"a@x", "a@x">>)
    \/ ~driver /\ runs = 0 /\ email_list # <<>> /\ open_chrome_and_login(TRUE)
    \/ runs = 0 /\ start_sending(1)
    \/ GuiAcquire
    \/ GuiRelease
    \/ TaskStep
    \/ ReplyStep
    \/ \E id \in Ids : TrackStart(1, id)
    \/ TrackNotify(1)
    \/ TrackEnqueue(1)

SpecWorker == Init /\ [][NextWorker]_vars

\* ... with every thread scheduled: action_worker is a thread of its own in
\* "while True" (127, 1970), the GUI thread and the pool threads leave their
\* with blocks, and the HTTP thread finishes its request
SpecWorkerFair ==
    /\ SpecWorker
    /\ WF_vars(ReplyStep)
    /\ WF_vars(GuiAcquire \/ GuiRelease)
    /\ WF_vars(TaskStep)
    /\ WF_vars(TrackNotify(1) \/ TrackEnqueue(1))

\* ------------------------------------------- PurchaseOrderBlurrer (image_blur)
MaxExcess == 30     \* how far below 1 and above 50 the arguments go

BlurMin == 1
BlurMax == 50
KernelMin == 3

\* the arguments of set_blur_strength
StrengthArgs == (BlurMin - MaxExcess)..(BlurMax + MaxExcess)

\* max(1, min(strength, 50))
ClampStrength(strength) ==
    LET low == IF strength < BlurMax THEN strength ELSE BlurMax
    IN  IF low > BlurMin THEN low ELSE BlurMin

\* a kernel size that is left even
KernelFor_Even(b) == IF b > KernelMin THEN b ELSE KernelMin

\* kernel_size = max(3, blur_strength), plus one when that is even
KernelFor(b) ==
    LET k == IF b > KernelMin THEN b ELSE KernelMin
    IN  IF k % 2 = 0 THEN k + 1 ELSE k

\* set_blur_strength
set_blur_strength(strength) ==
    /\ blurArg' = strength
    /\ blur_strength' = ClampStrength(strength)
    /\ gaussian_kernel_size' = <<KernelFor(ClampStrength(strength)), KernelFor(ClampStrength(strength))>>
    /\ UNCHANGED <<provider, helperAvailable, now, programVars, raw_message, sender_var, review_var, html, txLog, hosted_files, disk, fPc, fId, fileResp, sePc, seLog, seRet>>

NextBlur == \E strength \in StrengthArgs : set_blur_strength(strength)

SpecBlur == Init /\ [][NextBlur]_vars

\* Hosting documents and requests to the /file endpoint
NextFiles ==
    \/ \E f \in FileIds, atEnd \in BOOLEAN : host_document_and_insert_link(f, atEnd)
    \/ \E p \in disk : RemoveHostedCopy(p)
    \/ \E fid \in RequestIds : ServeFileCheck(fid)
    \/ ServeFileSend

SpecFiles == Init /\ [][NextFiles]_vars

\* One call of send_email for any provider tag
NextSendEmail ==
    \/ \E p \in Providers : sePc = "idle" /\ SelectProvider(p)
    \/ \E short \in BOOLEAN : SendEmailStart(short)
    \/ \E res \in RecipientResults : RecipientTry(res)
    \/ \E saved \in BOOLEAN : RecipientScreenshot(saved)
    \/ \E rb \in {"none", "unread", "match", "differs", "empty", "raise"} : BodyTry(rb)
    \/ \E o \in AttachOutcomes : AttachFile(o)
    \/ \E how \in {"click", "shortcut", "none"} : SendAction(how)
    \/ \E toast \in BOOLEAN, found \in BOOLEAN : ConfirmSend(toast, found)

SpecSendEmail == Init /\ [][NextSendEmail]_vars


\* ==================================================================== claims

\* the threads that are inside a browser interaction
DomThreads ==
    {TaskThread(t) : t \in {u \in Ids : pc[u] \in {"compose", "sendreq", "failshot"}}}
        \cup (IF arPc = "send" THEN {ReplyThread} ELSE {})
        \cup (IF guiPc \in {"open_cdp", "open_nav", "warm"} THEN {GuiThread} ELSE {})

\* C1: at any time at most one thread is inside a browser interaction, and a
\* thread that is inside one (a pool thread in send_email or taking a
\* screenshot, action_worker in send_email, the GUI thread in
\* open_chrome_and_login or the warm-up) holds driver_lock.
C1_MutualExclusion ==
    /\ Cardinality(DomThreads) <= 1
    /\ \A th \in DomThreads : driver_lock = th

\* a pool thread is confirming a send while action_worker and the GUI thread
\* both wait for the lock
C1_Witness ==
    \E t \in Ids : pc[t] = "sendreq" /\ arPc = "wait" /\ guiPc = "open_cdp_wait"

\* C2: a task or an auto-reply action that is not inside its with-block does
\* not hold driver_lock: after a normal return, an exception in send_email, a
\* missing driver or an unconfirmed send the lock is no longer held by it.
C2_LockReleased ==
    /\ \A t \in Ids : pc[t] \notin {"compose", "sendreq", "failshot"}
                        => driver_lock # TaskThread(t)
    /\ arPc # "send" => driver_lock # ReplyThread

\* one task ended for want of a driver, a sibling ended unconfirmed, and the
\* lock is free
C2_Witness ==
    /\ driver_lock = NoHolder
    /\ \E t, u \in Ids : /\ pc[t] = "done" /\ outcome[t] = "no_driver"
                         /\ pc[u] = "done" /\ outcome[u] = "unconfirmed"

\* C3: the failure of one task is isolated. When the dispatcher handles a
\* failed task whose record is in the store, the record becomes Failed and
\* the dispatcher goes on; every handled task whose record is in the store
\* has the status of its own outcome; and the dispatcher thread of a run ends
\* early only over a record that was removed from the store, never over a
\* failed send.
C3_ErrorIsolation ==
    /\ [](\A t \in Ids : processed[t] /\ t \in tracking_map
                           => rec[t].status = StatusFor(Success(t)))
    /\ [](\A r \in 1..MaxRuns : crashed[r]
                           => \E t \in TasksOf(r) : processed[t] /\ t \notin tracking_map)
    /\ [][\A t \in Ids : ~processed[t] /\ processed'[t] /\ ~Success(t) /\ t \in tracking_map
                           => /\ rec'[t].status = "Failed"
                              /\ failed_count' = failed_count + 1
                              /\ ~crashed'[runOf[t]]]_vars

\* the first task of a batch failed, and its sibling was sent afterwards
C3_Witness ==
    \E t, u \in Ids : /\ t < u /\ runOf[t] = runOf[u]
                      /\ processed[t] /\ processed[u]
                      /\ rec[t].status = "Failed" /\ rec[u].status = "Sent"

C5_SingleEnqueue == \A t \in Ids : enq[t] <= 1

\* C6: once a request for a known id has been answered, the record's replied
\* flag is true; a request that starts after that enqueues nothing; and a
\* replied flag that is true stays true.
C6_SequentialIdempotence ==
    /\ [](\A t \in Ids : doneHits[t] > 0 => rec[t].replied)
    /\ [][\A h \in HttpThreads : hPc[h] = "enqueue" /\ hPc'[h] = "idle" => ~hSeq[h]]_vars
    /\ [][\A t \in Ids : rec[t].replied => rec'[t].replied]_vars

\* two requests for one id were answered and one action was enqueued
C6_Witness == \E t \in Ids : doneHits[t] >= 2 /\ enq[t] = 1

\* C7: two auto-replies sent to one address are at least 3600 s apart.
C7_RateGate ==
    \A i, j \in 1..Len(arLog) :
        i < j /\ arLog[i][1] = arLog[j][1] => arLog[j][2] - arLog[i][2] >= Cooldown

\* C8: a record that is Opened stays Opened.
C8_NoRevert == [][\A t \in Ids : rec[t].status = "Opened" => rec'[t].status = "Opened"]_vars

\* C9: a request to /track whose id is not in the store (an empty id or one
\* never minted) changes neither the store nor action_queue nor
\* gui_update_queue and is answered with the GIF; the store holds minted ids
\* only.
C9_UnknownIdNoOp ==
    /\ [](tracking_map \subseteq 1..minted)
    /\ [][hits' = hits + 1 /\ hPc' = hPc
            => /\ UNCHANGED <<tracking_map, rec, action_queue, gui_update_queue>>
               /\ lastResp' = GifResponse]_vars

\* only requests with unknown ids were made, against a store that holds records
C9_Witness ==
    /\ hits > 0
    /\ lastResp = GifResponse
    /\ \A h \in HttpThreads : hPc[h] = "idle"
    /\ \A t \in Ids : doneHits[t] = 0
    /\ tracking_map # {}

\* C10: every status is one of Queued, Sent, Opened, Failed, and every record
\* carries the email of its task; a call of start_sending mints one id per
\* list entry, none of them minted before, stores a Queued record for the
\* k-th entry under the k-th of them, and touches no other record.
C10_OneRecordPerRecipient ==
    /\ [](\A t \in Ids : t <= minted => rec[t].status \in {"Queued", "Sent", "Opened", "Failed"} /\ rec[t].email = taskEmail[t])
    /\ [][minted' # minted =>
            LET n == Len(email_list)
                new == {t \in Ids : pc[t] = "none" /\ pc'[t] = "pending"}
            IN  /\ Cardinality(new) = n
                /\ new = (minted + 1)..(minted + n)
                /\ minted' = minted + n
                /\ new \subseteq tracking_map'
                /\ \A k \in 1..n : /\ rec'[minted + k].email = email_list[k]
                                   /\ rec'[minted + k].status = "Queued"
                                   /\ runOf'[minted + k] = runs'
                /\ \A t \in Ids \ new : rec'[t] = rec[t] /\ runOf'[t] = runOf[t]]_vars

\* two runs minted two records for one address under two ids
C10_Witness ==
    /\ runs = 2 /\ minted = 2
    /\ rec[1].email = rec[2].email
    /\ runOf[1] = 1 /\ runOf[2] = 2
    /\ {1, 2} \subseteq tracking_map

\* C11: while one run has been started, sent_count + failed_count is the
\* number of tasks whose completion the dispatcher has handled, and is at
\* most the number of tasks.
C11_OneUpdatePerTask ==
    runs <= 1 => /\ sent_count + failed_count = Cardinality({t \in Ids : processed[t]})
                 /\ sent_count + failed_count <= minted

\* C12: while the pause flag is set, no task that has not started starts.
C12_PauseHoldsPending ==
    [][\A t \in Ids : paused /\ pc[t] = "pending" => pc'[t] = "pending"]_vars

\* C13: once stop() was called during a run (the running flag is cleared), no
\* task that has not started starts.
C13_StopHoldsPending ==
    [][\A t \in Ids : runs > 0 /\ ~running /\ pc[t] = "pending" => pc'[t] = "pending"]_vars

\* C14: a missing browser session is one error of the run, not one failure
\* per recipient: at most one task of a run ends with "Driver not available".
C14_FailFast ==
    \A r \in 1..MaxRuns : Cardinality({t \in TasksOf(r) : outcome[t] = "no_driver"}) <= 1

\* C15: a task leaves the native path either done, successful and without the
\* browser path (a done task takes no further step), or for the browser path
\* with no outcome yet; a handled task is Failed only if its browser path
\* failed, and Sent if the native send or the browser send succeeded.
C15_NativeFallback ==
    /\ [][\A t \in Ids : pc[t] = "native" /\ pc'[t] # "native"
            => \/ pc'[t] = "done" /\ outcome'[t] = "native_ok" /\ driver_lock' = driver_lock
               \/ pc'[t] = "waitlock" /\ outcome'[t] = "none"]_vars
    /\ [][\A t \in Ids : pc[t] = "done" => pc'[t] = "done"]_vars
    /\ [](\A t \in Ids : outcome[t] = "native_ok" => pc[t] = "done")
    /\ [](\A t \in Ids : processed[t] /\ t \in tracking_map
            => /\ rec[t].status = "Failed" => outcome[t] \in FailOutcomes
               /\ outcome[t] \in OkOutcomes => rec[t].status = "Sent")

\* with the helper available, one task was sent by the native client and a
\* sibling, whose native send failed, by the browser
C15_Witness ==
    /\ IsOutlook(provider) /\ helperAvailable
    /\ \E t, u \in Ids : /\ processed[t] /\ outcome[t] = "native_ok" /\ rec[t].status = "Sent"
                         /\ processed[u] /\ outcome[u] = "toast" /\ rec[u].status = "Sent"

\* C16: when a run of pool width 1 is over and every send was composed and
\* confirmed by the toast, there is one Sent record per list entry under
\* pairwise distinct ids, sent_count is the length of the list and
\* failed_count is 0.
C16_AllConfirmedBatch ==
    (/\ runs = 1 /\ poolWidth[1] = 1 /\ minted > 0
     /\ \A t \in 1..minted : processed[t] /\ outcome[t] = "toast")
        => /\ minted = Len(email_list)
           /\ tracking_map = 1..minted
           /\ Cardinality(tracking_map) = Len(email_list)
           /\ \A t \in 1..minted : rec[t].status = "Sent" /\ rec[t].email = email_list[t]
           /\ \A t \in 1..minted : rec[t].status # "Failed"
           /\ sent_count = Len(email_list)
           /\ failed_count = 0

\* a batch of three recipients, all confirmed by the toast and handled
C16_Witness ==
    /\ runs = 1 /\ poolWidth[1] = 1 /\ minted = 3
    /\ \A t \in 1..3 : processed[t] /\ outcome[t] = "toast"

\* C17: a send that is not confirmed takes the failure path: the task waits
\* for the lock, holds it while the screenshot is attempted, and only then
\* ends; when the dispatcher handles it the record becomes Failed.
C17_UnconfirmedFails ==
    /\ [][\A t \in Ids : pc[t] = "sendreq" /\ outcome'[t] = "unconfirmed"
            => pc'[t] = "failwait" /\ observed'[t] # "toast"]_vars
    /\ [][\A t \in Ids : outcome[t] = "unconfirmed" /\ pc[t] # "done" /\ pc'[t] = "done"
            => pc[t] = "failshot" /\ driver_lock = TaskThread(t) /\ driver]_vars
    /\ [][\A t \in Ids : ~processed[t] /\ processed'[t] /\ outcome[t] = "unconfirmed"
                         /\ t \in tracking_map
            => rec'[t].status = "Failed"]_vars

\* a Gmail send saw neither the toast nor the message in the sent folder, and
\* its record is Failed
C17_Witness ==
    \E t \in Ids : /\ IsGmail(provider) /\ observed[t] = "nothing"
                   /\ outcome[t] = "unconfirmed" /\ processed[t]
                   /\ t \in tracking_map /\ rec[t].status = "Failed"

\* C18: for Gmail, Outlook.com and Comcast, a send that saw no toast and
\* whose message is listed in the sent folder is confirmed by the sent folder.
C18_SentFolderConfirms ==
    \A t \in Ids : (IsGmail(provider) \/ IsOutlook(provider) \/ IsComcast(provider))
                     /\ observed[t] = "listed"
                        => outcome[t] = "sentfolder"

\* C19: while a task of a run has not been handled by the dispatcher, every
\* id minted for the run is in tracking_map.
C19_NoDeleteDuringRun ==
    \A r \in 1..MaxRuns : (\E t \in TasksOf(r) : ~processed[t]) => TasksOf(r) \subseteq tracking_map

\* C20: no exception escapes the dispatcher thread of a run.
C20_NoEscapingException == \A r \in 1..MaxRuns : ~crashed[r]

\* C21: after _extract_body_fragment and then _inject_placeholders with
\* sender "Alice" and review URL "https://x/y", no piece of a placeholder
\* token (the '%' included) is left in the fragment.
C21_PlaceholderRoundTrip ==
    (txLog = <<"extract", "inject">> /\ sender_var = SenderValue /\ review_var = ReviewUrl)
        => \A i \in 1..Len(html) : html[i] \notin {"%", "SENDER", "REVIEW_DOCUMENT_URL", "REPLACE_WITH_AUDIO_URL"}

\* C22: _ensure_review_fallback returns its input when the review URL occurs
\* in it; otherwise the input is a strict prefix of the result and the rest is
\* one block that holds the URL; applied right after itself it changes nothing.
C22_FallbackIdempotent ==
    [][txLog' = Append(txLog, "ensure") =>
        /\ Occurs(review_var, html) => html' = html
        /\ ~Occurs(review_var, html) =>
            /\ Len(html') > Len(html)
            /\ SubSeq(html', 1, Len(html)) = html
            /\ LET blk == SubSeq(html', Len(html) + 1, Len(html'))
               IN  /\ blk[1] = "<p>" /\ blk[Len(blk)] = "</p>"
                   /\ Cardinality({i \in 1..Len(blk) : blk[i] = "<p>"}) = 1
                   /\ \E i \in 1..Len(blk) : blk[i] = review_var
        /\ (txLog # <<>> /\ txLog[Len(txLog)] = "ensure") => html' = html]_vars

\* the fallback was applied twice to a text without the URL: one block was
\* appended
C22_Witness ==
    /\ txLog = <<"ensure", "ensure">>
    /\ review_var = ReviewUrl
    /\ ~Occurs(ReviewUrl, raw_message)
    /\ Len(html) = Len(raw_message) + Len(FallbackBlock(ReviewUrl))
    /\ Cardinality({i \in 1..Len(html) : html[i] = "<a href="}) = 1

\* C23: _extract_body_fragment returns what is between <body> and </body>
\* when the text has a body element, and otherwise the text without its
\* doctype, html and head tags, everything else kept (outer white space
\* trimmed in both cases).
C23_ExtractKeepsRemainder ==
    [][txLog' = Append(txLog, "extract") =>
        LET s == Strip(html)
            i == IndexFrom(s, "<body>", 1)
            j == IF i = 0 THEN 0 ELSE IndexFrom(s, "</body>", i + 1)
        IN  html' = IF j # 0 THEN Strip(SubSeq(s, i + 1, j - 1))
                    ELSE Strip(DropTags(s, WrapperTags))]_vars

\* C24: a request to the file endpoint for an id that is not in hosted_files,
\* or whose stored path is not on disk when the request is looked up, is
\* answered 404; the file is served only for a hosted id whose copy exists;
\* no step of the endpoint changes hosted_files.
C24_FileEndpoint ==
    [][LET serving == fPc' # fPc \/ fId' # fId \/ fileResp' # fileResp
       IN  /\ (/\ fPc = "idle" /\ serving
               /\ \/ fId' \notin FileIds
                  \/ hosted_files[fId'] = NoMeta
                  \/ hosted_files[fId'] \notin disk)
                  => fPc' = "idle" /\ fileResp' = "404"
           /\ (fPc = "send" /\ fPc' = "idle" /\ fileResp' = "200")
                  => /\ fId \in FileIds
                     /\ hosted_files[fId] # NoMeta
                     /\ hosted_files[fId] \in disk
           /\ serving => hosted_files' = hosted_files]_vars

\* a request for a hosted id whose copy was removed from disk got 404
C24_Witness ==
    /\ fPc = "idle" /\ fileResp = "404"
    /\ fId \in FileIds
    /\ hosted_files[fId] # NoMeta
    /\ hosted_files[fId] \notin disk

\* C25: a run never has more tasks in flight than the width of its pool, and
\* in a run of width 1 a task has not started while a task before it in the
\* list has not finished.
C25_BoundedPool ==
    \A r \in 1..MaxRuns :
        LET tasks == {t \in Ids : runOf[t] = r}
            started == {t \in tasks : pc[t] \notin {"none", "pending"}}
        IN  /\ Cardinality({t \in started : pc[t] # "done"}) <= poolWidth[r]
            /\ poolWidth[r] = 1 =>
                   \A t \in tasks, u \in started : t < u => pc[t] = "done"

\* a pool of width 2 is full while a third task of the run is waiting
C25_Witness ==
    \E r \in 1..MaxRuns :
        /\ poolWidth[r] = 2
        /\ Cardinality({t \in Ids : runOf[t] = r /\ pc[t] \notin {"none", "pending", "done"}}) = 2
        /\ \E u \in Ids : runOf[u] = r /\ pc[u] = "pending"

\* C26: a task makes its native-client attempt while it holds driver_lock,
\* and the dispatcher's update of the task's record and of the counters
\* happens while the task still holds driver_lock.
C26_ProtocolOrder ==
    [][\A t \in Ids :
        /\ pc[t] = "native" => driver_lock = TaskThread(t)
        /\ (~processed[t] /\ processed'[t]) => driver_lock = TaskThread(t)]_vars

\* C27: _set_recipient_general makes its attempts in the order container
\* typing, global typing, script injection, clipboard paste; an attempt is
\* made only after every attempt before it failed (no tokenization, or an
\* exception); it returns True at the first attempt that shows tokenization,
\* and returns False, after trying a screenshot, exactly when all four failed.
C27_RecipientOrder ==
    LET R == Tries("recipient")
        P == PhaseLog("recipient")
        returned == P # <<>> /\ P[Len(P)][2] = "return"
    IN  /\ Len(R) <= Len(RecipientStrategies)
        /\ \A i \in 1..Len(R) :
              /\ R[i][2] = RecipientStrategies[i]
              /\ i < Len(R) => R[i][3] \in {"not_tokenized", "exception"}
        /\ (R # <<>> /\ R[Len(R)][3] = "tokenized") => (returned /\ P[Len(P)][3] = "true")
        /\ returned =>
              /\ P[Len(P)][3] = "true" <=> R[Len(R)][3] = "tokenized"
              /\ P[Len(P)][3] = "false" <=>
                    /\ Len(R) = Len(RecipientStrategies)
                    /\ \A i \in 1..Len(R) : R[i][3] # "tokenized"
                    /\ P[Len(P) - 1][2] = "screenshot"

\* the first two attempts failed, one of them by an exception, and the
\* script injection was detected as tokenized
C27_Witness ==
    LET R == Tries("recipient")
    IN  /\ Len(R) = 3
        /\ R[1][3] = "exception" /\ R[2][3] = "not_tokenized" /\ R[3][3] = "tokenized"
        /\ R[3][2] = "script_injection"
        /\ sePc = "body"

\* C28: _set_body_html_generic returns True only after a step whose read-back
\* matched the wanted text on its first 60 characters, or was non-empty with a
\* short wanted text; it returns False only when every step was tried.
C28_BodyReadBack ==
    LET B == PhaseLog("body")
    IN  (B # <<>> /\ B[Len(B)][2] = "return") =>
            /\ B[Len(B)][3] = "true" =>
                  \/ B[Len(B) - 1][3] = "match"
                  \/ B[Len(B) - 1][3] = "differs" /\ SeShort
            /\ B[Len(B)][3] = "false" => B[Len(B) - 1][2] = "final_typed"

\* C29: in every branch of send_email the send action is issued only after
\* recipient injection and body injection both returned True, the
\* confirmation is polled only after a send action was issued, and after a
\* failed injection there is no send action and the call raises.
C29_DeliveryOrder ==
    LET ok(phase) == \E j \in 1..Len(seLog) : seLog[j] = <<phase, "return", "true">>
        failed(phase) == \E j \in 1..Len(seLog) : seLog[j] = <<phase, "return", "false">>
        sent == \E j \in 1..Len(seLog) : seLog[j][1] = "send"
    IN  /\ sent => ok("recipient") /\ ok("body")
        /\ \A i \in 1..Len(seLog) : seLog[i][1] = "confirm" =>
              i > 1 /\ seLog[i - 1][1] = "send" /\ seLog[i - 1][2] # "none"
        /\ (failed("recipient") \/ failed("body")) =>
              ~sent /\ sePc \in {"done"} /\ seRet = "raise"

\* C30: when an attachment is chosen and no file input is found, or send_keys
\* on it fails, _attach_file_to_compose returns False, send_email goes on to
\* the send action, and the call does not raise unless the confirmation does.
C30_SoftAttachment ==
    \A i \in 1..Len(seLog) :
        (seLog[i][1] = "attach" /\ seLog[i][2] \in {"no_input", "send_keys_failed"}) =>
            /\ seLog[i][3] = "false"
            /\ sePc # "send" => (Len(seLog) > i /\ seLog[i + 1][1] = "send")
            /\ seRet = "raise" => seLog[Len(seLog)][1] = "confirm"

\* no file input was found for the chosen attachment and the call returned
\* True after the toast
C30_Witness ==
    /\ sePc = "done" /\ seRet = "True"
    /\ Named(SeProvider)
    /\ \E i \in 1..Len(seLog) : seLog[i] = <<"attach", "no_input", "false">>
    /\ seLog[Len(seLog)] = <<"confirm", "toast", "toast">>

\* C31: _attach_file_to_compose returns True only when the file name was seen
\* in the compose before the polling timeout.
C31_IndicatorBeforeSuccess ==
    \A i \in 1..Len(seLog) :
        (seLog[i][1] = "attach" /\ seLog[i][3] = "true") => seLog[i][2] = "attached_visible"

\* C31, amended: _attach_file_to_compose returns True exactly when a file
\* input was found and send_keys of the path did not raise; it then polls for
\* the file name up to the timeout and returns True whether it was seen or not.
C31_ReturnsAfterAssign ==
    \A i \in 1..Len(seLog) :
        seLog[i][1] = "attach" =>
            (seLog[i][3] = "true" <=> seLog[i][2] \in {"attached_visible", "attached_unseen"})

\* the path was assigned, the file name never appeared, True was returned
C31_Witness ==
    /\ sePc = "send"
    /\ seLog[Len(seLog)] = <<"attach", "attached_unseen", "true">>

\* C32: a screenshot that fails changes nothing else.  After a failed pre-send
\* screenshot the task goes on to send_email, and a task whose send was then
\* confirmed is recorded Sent; after a failed failure screenshot the task has
\* returned False and holds no lock; after a failed screenshot at the end of
\* _set_recipient_general the function returns False.
C32_ScreenshotsSwallowed ==
    [][\A t \in Ids :
        /\ (pc[t] = "compose" /\ pc'[t] # "compose" /\ shots'[t][1] = "exception") =>
               \/ pc'[t] = "sendreq" /\ delivered'[t] /\ driver_lock' = TaskThread(t)
               \/ outcome'[t] = "compose_failed"
        /\ (pc'[t] = "done" /\ shots'[t][1] = "exception"
                /\ observed'[t] \in {"toast", "listed"}) =>
               /\ outcome'[t] \in OkOutcomes
               /\ processed'[t] => rec'[t].status = "Sent"
        /\ shots'[t][2] = "exception" =>
               /\ pc'[t] = "done"
               /\ outcome'[t] \in FailOutcomes
               /\ driver_lock' # TaskThread(t)
               /\ processed'[t] => rec'[t].status = "Failed"
        /\ \A i \in 1..Len(seLog') :
               seLog'[i] = <<"recipient", "screenshot", "exception">> =>
                   seLog'[i + 1] = <<"recipient", "return", "false">>]_vars

\* one task was recorded Sent after its pre-send screenshot failed, another
\* Failed after its pre-send and its failure screenshot failed, and a recipient
\* injection ended with a failed screenshot
C32_Witness ==
    /\ \E t \in Ids : shots[t][1] = "exception" /\ processed[t] /\ rec[t].status = "Sent"
    /\ \E t \in Ids : shots[t] = <<"exception", "exception">> /\ processed[t]
                      /\ rec[t].status = "Failed"
    /\ \E i \in 1..Len(seLog) : seLog[i] = <<"recipient", "screenshot", "exception">>

\* C33: a step of track() for a known id changes, of all records, only the
\* one with that id, and of it only opened_time, status and replied; the keys
\* of the store, sent_count and failed_count stay as they are.
C33_PixelHitFrame ==
    [][(hPc' # hPc \/ hits' # hits) =>
        /\ UNCHANGED <<tracking_map, sent_count, failed_count>>
        /\ \A t \in Ids :
              /\ rec'[t].email = rec[t].email
              /\ rec'[t].sent_time = rec[t].sent_time
              /\ rec'[t] # rec[t] =>
                     \E h \in HttpThreads :
                         hPc'[h] # hPc[h] /\ t \in {hId[h], hId'[h]}]_vars

\* a message was opened and answered: its record is Opened and flagged with
\* its email and sent time as minted, and the other record of the run is as
\* the dispatcher left it
C33_Witness ==
    \E t, u \in tracking_map :
        /\ t # u
        /\ doneHits[t] > 0
        /\ rec[t].status = "Opened" /\ rec[t].replied /\ rec[t].opened_time > 0
        /\ rec[t].email = taskEmail[t]
        /\ doneHits[u] = 0
        /\ rec[u].status = "Sent" /\ rec[u].opened_time = 0 /\ ~rec[u].replied
        /\ sent_count = 2

\* C34: the body handed to the native client or injected into the compose
\* editor for a task holds the pixel of the task's own track id, and the pixel
\* of no other id.
C34_OwnPixelInBody ==
    \A t \in Ids :
        bodyHtml[t] # NoHtml =>
            \A u \in Ids : Occurs(PixelTag(u)[1], bodyHtml[t]) <=> u = t

\* C35: no thread waits to enter a "with self.driver_lock" block while it
\* holds the lock itself: not a pool thread before send_email or before the
\* failure screenshot, not the GUI thread before its blocks, not action_worker.
C35_NoReentry ==
    /\ \A t \in Ids : pc[t] \in {"waitlock", "failwait"} => driver_lock # TaskThread(t)
    /\ guiPc \in {"open_cdp_wait", "open_nav_wait", "warm_wait"} => driver_lock # GuiThread
    /\ arPc = "wait" => driver_lock # ReplyThread

\* a pool thread whose send raised has left its with block and waits for the
\* lock to take the failure screenshot, while another thread holds the lock
C35_Witness ==
    \E t \in Ids : /\ pc[t] = "failwait"
                   /\ outcome[t] \in {"compose_failed", "unconfirmed"}
                   /\ driver_lock \in {GuiThread, ReplyThread}

\* C36: at most one dispatch run is active at a time: no two runs both have a
\* live dispatcher thread with tasks it has not handled yet, and the counters
\* are not set back to zero while a run has such tasks.
C36_SingleActiveRun ==
    /\ [](Cardinality({r \in 1..MaxRuns :
                         ~crashed[r] /\ \E t \in TasksOf(r) : ~processed[t]}) <= 1)
    /\ [][(\E r \in 1..MaxRuns : ~crashed[r] /\ \E t \in TasksOf(r) : ~processed[t])
            => ~(runs' = runs + 1)]_vars

\* C37: when gui_update_queue is empty and no thread is between a write to
\* the store and the update it queues for it, the row of every recipient shows
\* the status, the opened time and the replied value of the recipient's latest
\* record.
C37_TableRefinesStore ==
    (gui_update_queue = <<>> /\ guiPc = "idle" /\ arPc = "idle"
       /\ \A h \in HttpThreads : hPc[h] = "idle")
    => \A e \in Emails :
          LET ids == {t \in tracking_map : rec[t].email = e}
          IN  tree[e] # NoRow /\ ids # {} =>
                LET t == CHOOSE x \in ids : \A y \in ids : y <= x
                IN  /\ tree[e][1] = rec[t].status
                    /\ tree[e][3] = rec[t].opened_time
                    /\ tree[e][4] = (IF rec[t].replied THEN "Yes" ELSE "No")

\* C38: whenever actions are on action_queue, all of them are eventually taken
\* off it; action_worker always comes back to the top of its loop; and a send
\* that did not go through leaves recent_replies as it was.
C38_WorkerNeverStops ==
    /\ (action_queue # <<>>) ~> (action_queue = <<>>)
    /\ (arPc # "idle") ~> (arPc = "idle")
    /\ [][arPc = "send" /\ arPc' # "send" /\ arLog' = arLog
            => recent_replies' = recent_replies]_vars

\* two actions were enqueued and both were taken: one reply went out, the
\* other action was not sent, and the worker is at the top of its loop
C38_Witness ==
    /\ \E t, u \in Ids : t # u /\ enq[t] > 0 /\ enq[u] > 0
    /\ action_queue = <<>>
    /\ arPc = "idle"
    /\ Len(arLog) = 1

\* C39: after set_blur_strength(strength) the blur strength is strength
\* clamped to [1, 50], and the kernel is (k, k) with k odd, k >= 3 and k equal
\* to max(3, blur_strength) or to that value plus one.
C39_BlurClamp ==
    [][\A strength \in StrengthArgs : blurArg' = strength =>
          /\ blur_strength' = (IF strength < 1 THEN 1 ELSE IF strength > 50 THEN 50 ELSE strength)
          /\ \E k \in 3..51 :
                /\ gaussian_kernel_size' = <<k, k>>
                /\ k % 2 = 1
                /\ \/ (blur_strength' <= 3 /\ k = 3)
                   \/ (blur_strength' > 3 /\ k \in {blur_strength', blur_strength' + 1})]_vars

\* a strength above the range was clamped to 50 and, 50 being even, the
\* kernel is (51, 51)
C39_Witness ==
    /\ blurArg > 50
    /\ blur_strength = 50
    /\ gaussian_kernel_size = <<51, 51>>

====
